---- MODULE Spec2Model ----
(***************************************************************************)
(* Watch-room coordination server of MoonTVPlus.                           *)
(*                                                                         *)
(* Two deployments of the same class exist in the repository:              *)
(*   "js" : WatchRoomServer embedded in server.js (src/unnamed/part_005)   *)
(*   "ts" : shared WatchRoomServer (src/src/lib/watch-room-server.ts)      *)
(* The server state is one record (rooms, members, socketToRoom,           *)
(* roomDeletionTimers, the pending setTimeout handles, the socket.io       *)
(* adapter rooms and the messages emitted by the last handler); every      *)
(* handler is an operator from a server state to the next one, and every   *)
(* action of the state machine runs one whole handler.                     *)
(*                                                                         *)
(* Abstractions: display strings (room name, description, user names) are  *)
(* left out; the snapshots a reply carries (several rooms or members) are  *)
(* sets, while the rooms Map keeps its insertion order (roomKeys), which   *)
(* the cleanup sweep follows.  generateRoomId is a function of             *)
(* Math.random() alone: room ids and owner tokens come from one pool, a    *)
(* value may be returned again, and one of the values is the empty string. *)
(*                                                                         *)
(* The browser side (the useWatchRoom hook, src/unnamed/part_000, and the  *)
(* usePlaySync hook, src/src/hooks/usePlaySync.ts) is one record, client,  *)
(* with runs of its own (SpecStore, SpecSync) that leave the server        *)
(* alone.  SpecTwin runs the two deployments side by side.                 *)
(***************************************************************************)
EXTENDS Integers, Sequences, FiniteSets, Bags, TLC

\* ------------------------------------------------------------------ bounds
\* For each family of runs: the number of connections; the values
\* Math.random() takes, Least .. Rooms when a room id is generated and
\* Least .. Tokens when an owner token is (0 is the value generateRoomId
\* turns into the empty string, so Least = 1 leaves it out; an owner token
\* can equal a room id); the number of room:create events a run handles.
\* Spec: create, join, leave, disconnect and list while the clock stands still
LifeConns == 2
LifeRooms == 1
LifeTokens == 2
LifeCreates == 2
LifeLeast == 1
LifePwds == 1
\* SpecTime: the same with heartbeats, the deletion timers and the sweep
TimeConns == 2
TimeRooms == 1
TimeTokens == 2
TimeCreates == 2
TimeLeast == 1
TimeAdvances == 1
\* SpecRooms: connections that move between two rooms, "" and another one
RoomsConns == 2
RoomsRooms == 1
RoomsTokens == 1
RoomsCreates == 2
RoomsLeast == 0
\* SpecRelay: every client event, the clock stands still
RelayConns == 2
RelayRooms == 1
RelayTokens == 2
RelayCreates == 2
RelayLeast == 1
\* payloads of the relayed events
MaxPayload == 1
\* SpecStore: how often the browser's clock moves, and how often connect
\* is called
StoreTicks == 3
MaxConnects == 3
\* SpecSync: positions are counted in 1/PerSecond of a second; the browser
\* handles at most MaxEvents events from the room and MaxActs local ones
PerSecond == 10
MaxEvents == 2
MaxActs == 2

\* ------------------------------------------------------- program constants
GraceDelay == 30000
SweepPeriod == 30000
OwnerTimeout == 5 * 60 * 1000
StoreTtl == 24 * 60 * 60 * 1000
RejoinDelay == 1000
\* usePlaySync: a position is adopted when it is more than 2 s away
SyncTolerance == 2
\* usePlaySync: syncingRef is reset 500 ms after a play event was applied
\* and 1000 ms after a play:change was; broadcastPlayState sends at most
\* once in 1000 ms; the owner's change effect broadcasts after 500 ms
SyncResetDelay == 500
ChangeResetDelay == 1000
BroadcastGap == 1000
ChangeDelay == 500

\* ---------------------------------------------------------------- domains
\* the empty string, which generateRoomId returns for Math.random() = 0
EmptyString == 0
\* `undefined' (or an empty string) for the optional password / ownerToken
NoPwd == 0
NoToken == 0
\* room:deleted without a payload
NoReason == [reason |-> "undefined"]
\* currentState: null
Null == [type |-> "null", v |-> 0]
PlayStates == { [type |-> "play", v |-> i] : i \in 1 .. MaxPayload }
LiveStates == { [type |-> "live", v |-> i] : i \in 1 .. MaxPayload }
\* how far the clock moves at a time: less than the grace delay, the owner
\* timeout exactly, and more than it
Deltas == { 1, OwnerTimeout, OwnerTimeout + 1 }
Variants == { "js", "ts" }

\* ------------------------------------------------------------ Map helpers
MapSet(f, k, v) == [x \in DOMAIN f \cup {k} |-> IF x = k THEN v ELSE f[x]]
MapDel(f, k) == [x \in DOMAIN f \ {k} |-> f[x]]
MapDelAll(f, ks) == [x \in DOMAIN f \ ks |-> f[x]]
EmptyMap == [x \in {} |-> x]

RECURSIVE ToSeq(_)
\* the connections of T in ascending order (a deterministic emission order)
ToSeq(T) ==
  IF T = {} THEN <<>>
  ELSE LET m == CHOOSE x \in T : \A y \in T : x <= y
       IN <<m>> \o ToSeq(T \ {m})

\* ---------------------------------------------------- socket.io primitives
\* sockets currently joined to the adapter room `name'
InRoom(s, name) == { c \in DOMAIN s.sio : name \in s.sio[c] }

\* io.to(name).emit(ev, data)
IoTo(s, name, ev, data) ==
  LET tg == ToSeq(InRoom(s, name))
  IN [s EXCEPT !.out = @ \o [i \in 1 .. Len(tg) |-> [to |-> tg[i], ev |-> ev, data |-> data]]]

\* socket.to(name).emit(ev, data): everybody in the room but the sender
SocketTo(s, c, name, ev, data) ==
  LET tg == ToSeq(InRoom(s, name) \ {c})
  IN [s EXCEPT !.out = @ \o [i \in 1 .. Len(tg) |-> [to |-> tg[i], ev |-> ev, data |-> data]]]

\* callback(data) of a request/response event
Callback(s, c, ev, data) ==
  [s EXCEPT !.out = Append(@, [to |-> c, ev |-> ev, data |-> data])]

\* socket.join(name) / socket.leave(name); both are no-ops on a closed socket
SocketJoin(s, c, name) ==
  IF c \in DOMAIN s.sio THEN [s EXCEPT !.sio[c] = @ \cup {name}] ELSE s

SocketLeave(s, c, name) ==
  IF c \in DOMAIN s.sio THEN [s EXCEPT !.sio[c] = @ \ {name}] ELSE s

\* ------------------------------------------------------------- constructor
NewServer ==
  [ rooms |-> EmptyMap,
    members |-> EmptyMap,
    socketToRoom |-> EmptyMap,
    roomKeys |-> <<>>,
    roomDeletionTimers |-> EmptyMap,
    timers |-> {},
    cleanupInterval |-> TRUE,
    sio |-> EmptyMap,
    out |-> <<>> ]

\* ---------------------------------------------------------- generateRoomId
\* Math.random().toString(36).substring(2, 8).toUpperCase(): a function of
\* the random number alone.  rnd stands for the value of Math.random():
\* 0 gives "0".substring(2, 8), the empty string, and every other value
\* of the run an id of its own (10 + rnd)
GenerateRoomId(rnd) == IF rnd = 0 THEN EmptyString ELSE 10 + rnd

\* ------------------------------------------------------- the rooms Map
\* this.rooms.set(roomId, room): a new key goes to the end of the Map, a
\* key that is present keeps its place
RoomsSet(s, roomId, room) ==
  [s EXCEPT !.rooms = MapSet(@, roomId, room),
            !.roomKeys = IF roomId \in DOMAIN s.rooms THEN @ ELSE Append(@, roomId)]

\* this.rooms.delete(roomId)
RoomsDelete(s, roomId) ==
  [s EXCEPT !.rooms = MapDel(@, roomId),
            !.roomKeys = SelectSeq(@, LAMBDA x : x # roomId)]

\* ------------------------------------------------------------- room:create
CreateRoom(s, c, data, roomId, ownerToken, now) ==
  LET room == [ id |-> roomId,
                password |-> data.password,
                isPublic |-> data.isPublic,
                ownerId |-> c,
                ownerToken |-> ownerToken,
                memberCount |-> 1,
                currentState |-> Null,
                lastOwnerHeartbeat |-> now ]
      member == [ id |-> c, isOwner |-> TRUE, lastHeartbeat |-> now ]
      s0 == RoomsSet(s, roomId, room)
      s1 == [s0 EXCEPT !.members = MapSet(@, roomId, MapSet(EmptyMap, c, member)),
                       !.socketToRoom = MapSet(@, c, [roomId |-> roomId, userId |-> c, isOwner |-> TRUE])]
      s2 == SocketJoin(s1, c, roomId)
  IN Callback(s2, c, "room:create", [success |-> TRUE, room |-> room])

\* ------------------------------------------------ shared handler fragments
\* mutant: the password is not checked
PasswordNeverRejected(room, data) == FALSE

\* if (room.password && room.password !== data.password)
PasswordRejected(room, data) ==
  room.password # NoPwd /\ room.password # data.password

\* if (data.ownerToken && data.ownerToken === room.ownerToken)
IsOwnerReconnect(room, data) ==
  data.ownerToken # NoToken /\ data.ownerToken = room.ownerToken

\* mutant: memberCount is not recomputed after a membership change
RecountMembersStale(s, r) == s

\* room.memberCount = roomMembers.size; this.rooms.set(roomId, room)
RecountMembers(s, r) ==
  IF r \in DOMAIN s.rooms
  THEN [s EXCEPT !.rooms[r].memberCount = Cardinality(DOMAIN s.members[r])]
  ELSE s

\* if (this.roomDeletionTimers.has(roomId)) { clearTimeout(...); delete }
CancelDeletionTimer(s, r) ==
  IF r \in DOMAIN s.roomDeletionTimers
  THEN [s EXCEPT !.timers = @ \ {s.roomDeletionTimers[r]},
                 !.roomDeletionTimers = MapDel(@, r)]
  ELSE s

\* const deletionTimer = setTimeout(..., 30000);
\* this.roomDeletionTimers.set(roomId, deletionTimer)
ArmDeletionTimer(s, r, now) ==
  LET n == CHOOSE i \in 1 .. Cardinality(s.timers) + 1 :
             /\ \A g \in s.timers : g.n # i
             /\ \A j \in 1 .. i - 1 : \E g \in s.timers : g.n = j
      h == [roomId |-> r, due |-> now + GraceDelay, n |-> n]
  IN [s EXCEPT !.timers = @ \cup {h},
               !.roomDeletionTimers = MapSet(@, r, h)]

\* members.forEach(memberId => this.socketToRoom.delete(memberId))
EvictMembers(s, r) ==
  [s EXCEPT !.socketToRoom = MapDelAll(@, DOMAIN s.members[r])]

\* --------------------------------------------------------------- room:join
\* server.js: the ownerToken reclaims ownership, a pending deletion timer is
\* cancelled
JoinRoomJs(s, c, data, now) ==
  IF data.roomId \notin DOMAIN s.rooms
  THEN Callback(s, c, "room:join", [success |-> FALSE, error |-> "ROOM_NOT_FOUND"])
  ELSE
  IF PasswordRejected(s.rooms[data.roomId], data)
  THEN Callback(s, c, "room:join", [success |-> FALSE, error |-> "WRONG_PASSWORD"])
  ELSE
  LET r == data.roomId
      isOwner == IsOwnerReconnect(s.rooms[r], data)
      s1 == IF isOwner
            THEN [s EXCEPT !.rooms[r].ownerId = c,
                           !.rooms[r].lastOwnerHeartbeat = now]
            ELSE s
      s2 == CancelDeletionTimer(s1, r)
      member == [ id |-> c, isOwner |-> isOwner, lastHeartbeat |-> now ]
      s3 == IF r \in DOMAIN s2.members
            THEN RecountMembers([s2 EXCEPT !.members[r] = MapSet(@, c, member)], r)
            ELSE s2
      s4 == [s3 EXCEPT !.socketToRoom =
                          MapSet(@, c, [roomId |-> r, userId |-> c, isOwner |-> isOwner])]
      s5 == SocketJoin(s4, c, r)
      s6 == SocketTo(s5, c, r, "room:member-joined", member)
      members == IF r \in DOMAIN s6.members
                 THEN { s6.members[r][u] : u \in DOMAIN s6.members[r] }
                 ELSE {}
  IN Callback(s6, c, "room:join",
              [success |-> TRUE, room |-> s6.rooms[r], members |-> members])

\* watch-room-server.ts: every joiner is a non-owner, there is no timer
JoinRoomTs(s, c, data, now) ==
  IF data.roomId \notin DOMAIN s.rooms
  THEN Callback(s, c, "room:join", [success |-> FALSE, error |-> "ROOM_NOT_FOUND"])
  ELSE
  IF PasswordRejected(s.rooms[data.roomId], data)
  THEN Callback(s, c, "room:join", [success |-> FALSE, error |-> "WRONG_PASSWORD"])
  ELSE
  LET r == data.roomId
      member == [ id |-> c, isOwner |-> FALSE, lastHeartbeat |-> now ]
      s3 == IF r \in DOMAIN s.members
            THEN RecountMembers([s EXCEPT !.members[r] = MapSet(@, c, member)], r)
            ELSE s
      s4 == [s3 EXCEPT !.socketToRoom =
                          MapSet(@, c, [roomId |-> r, userId |-> c, isOwner |-> FALSE])]
      s5 == SocketJoin(s4, c, r)
      s6 == SocketTo(s5, c, r, "room:member-joined", member)
      members == IF r \in DOMAIN s6.members
                 THEN { s6.members[r][u] : u \in DOMAIN s6.members[r] }
                 ELSE {}
  IN Callback(s6, c, "room:join",
              [success |-> TRUE, room |-> s6.rooms[r], members |-> members])

\* --------------------------------------------------------------- room:list
\* mutant: the reply is not filtered by isPublic
ListRoomsAll(s, c) ==
  Callback(s, c, "room:list", { s.rooms[r] : r \in DOMAIN s.rooms })

ListRooms(s, c) ==
  Callback(s, c, "room:list",
           { s.rooms[r] : r \in { x \in DOMAIN s.rooms : s.rooms[x].isPublic } })

\* -------------------------------------------------------------- deleteRoom
\* server.js: deleteRoom(roomId, skipNotify = false)
DeleteRoomJs(s, roomId, skipNotify) ==
  LET s1 == IF ~skipNotify THEN IoTo(s, roomId, "room:deleted", NoReason) ELSE s
  IN [RoomsDelete(s1, roomId) EXCEPT !.members = MapDel(@, roomId)]

\* watch-room-server.ts: deleteRoom(roomId)
DeleteRoomTs(s, roomId) ==
  LET s1 == IoTo(s, roomId, "room:deleted", NoReason)
  IN [RoomsDelete(s1, roomId) EXCEPT !.members = MapDel(@, roomId)]

\* ---------------------------------------------------------- handleLeaveRoom
\* mutant: the callback does not look at the member map again
DeletionTimerCallbackBlind(s, h) ==
  LET s0 == [s EXCEPT !.timers = @ \ {h}]
      r == h.roomId
  IN IF r \in DOMAIN s0.members
     THEN [DeleteRoomJs(s0, r, FALSE) EXCEPT !.roomDeletionTimers = MapDel(@, r)]
     ELSE s0

\* the setTimeout callback armed by handleLeaveRoom (server.js)
DeletionTimerCallback(s, h) ==
  LET s0 == [s EXCEPT !.timers = @ \ {h}]
      r == h.roomId
  IN IF r \in DOMAIN s0.members /\ Cardinality(DOMAIN s0.members[r]) = 0
     THEN [DeleteRoomJs(s0, r, FALSE) EXCEPT !.roomDeletionTimers = MapDel(@, r)]
     ELSE s0

HandleLeaveRoomJs(s, c, now) ==
  IF c \notin DOMAIN s.socketToRoom THEN s
  ELSE
  LET roomId == s.socketToRoom[c].roomId
      userId == s.socketToRoom[c].userId
      isOwner == s.socketToRoom[c].isOwner
      s1 == IF roomId \in DOMAIN s.members
            THEN
              LET a1 == [s EXCEPT !.members[roomId] = MapDel(@, userId)]
                  a2 == RecountMembers(a1, roomId)
                  a3 == SocketTo(a2, c, roomId, "room:member-left", userId)
              IN IF isOwner
                 THEN
                   LET b1 == SocketTo(a3, c, roomId, "room:deleted", [reason |-> "owner_left"])
                       b2 == EvictMembers(b1, roomId)
                       b3 == DeleteRoomJs(b2, roomId, TRUE)
                   IN CancelDeletionTimer(b3, roomId)
                 ELSE
                   IF Cardinality(DOMAIN a3.members[roomId]) = 0
                   THEN ArmDeletionTimer(a3, roomId, now)
                   ELSE a3
            ELSE s
      s2 == SocketLeave(s1, c, roomId)
  IN [s2 EXCEPT !.socketToRoom = MapDel(@, c)]

HandleLeaveRoomTs(s, c) ==
  IF c \notin DOMAIN s.socketToRoom THEN s
  ELSE
  LET roomId == s.socketToRoom[c].roomId
      userId == s.socketToRoom[c].userId
      s1 == IF roomId \in DOMAIN s.members
            THEN
              LET a1 == [s EXCEPT !.members[roomId] = MapDel(@, userId)]
                  a2 == RecountMembers(a1, roomId)
                  a3 == SocketTo(a2, c, roomId, "room:member-left", userId)
              IN IF Cardinality(DOMAIN a3.members[roomId]) = 0
                 THEN DeleteRoomTs(a3, roomId)
                 ELSE a3
            ELSE s
      s2 == SocketLeave(s1, c, roomId)
  IN [s2 EXCEPT !.socketToRoom = MapDel(@, c)]

\* -------------------------------------------------------- startCleanupTimer
RECURSIVE SweepRooms(_, _, _, _)
\* one run of the setInterval callback over the rooms in `todo', the keys
\* of this.rooms in insertion order
SweepRooms(v, s, todo, now) ==
  IF todo = <<>> THEN s
  ELSE
    LET r == Head(todo)
        s1 == IF r \in DOMAIN s.rooms /\ now - s.rooms[r].lastOwnerHeartbeat > OwnerTimeout
              THEN IF v = "js" THEN DeleteRoomJs(s, r, FALSE) ELSE DeleteRoomTs(s, r)
              ELSE s
    IN SweepRooms(v, s1, Tail(todo), now)

\* mutant: the interval callback deletes nothing
CleanupSweepIdle(v, s, now) == s

CleanupSweep(v, s, now) == SweepRooms(v, s, s.roomKeys, now)

\* ------------------------------------------------- playback relay handlers
\* server.js play:update: any bound member may store and relay the state
PlayUpdateJs(s, c, state) ==
  IF c \notin DOMAIN s.socketToRoom THEN s
  ELSE
    LET r == s.socketToRoom[c].roomId
    IN IF r \in DOMAIN s.rooms
       THEN SocketTo([s EXCEPT !.rooms[r].currentState = state], c, r, "play:update", state)
       ELSE s

\* watch-room-server.ts play:update: owner only
PlayUpdateTs(s, c, state) ==
  IF c \notin DOMAIN s.socketToRoom \/ ~s.socketToRoom[c].isOwner THEN s
  ELSE
    LET r == s.socketToRoom[c].roomId
    IN IF r \in DOMAIN s.rooms
       THEN SocketTo([s EXCEPT !.rooms[r].currentState = state], c, r, "play:update", state)
       ELSE s

\* play:seek, play:play, play:pause: relayed from any bound connection
PlayRelay(s, c, ev, arg) ==
  IF c \notin DOMAIN s.socketToRoom THEN s
  ELSE SocketTo(s, c, s.socketToRoom[c].roomId, ev, arg)

\* play:change and live:change: owner only
OwnerChange(s, c, ev, state) ==
  IF c \notin DOMAIN s.socketToRoom \/ ~s.socketToRoom[c].isOwner THEN s
  ELSE
    LET r == s.socketToRoom[c].roomId
    IN IF r \in DOMAIN s.rooms
       THEN SocketTo([s EXCEPT !.rooms[r].currentState = state], c, r, ev, state)
       ELSE s

\* ------------------------------------------------------------ chat:message
ChatMessage(s, c, data, rnd, now) ==
  IF c \notin DOMAIN s.socketToRoom THEN s
  ELSE
    LET message == [ id |-> <<now, rnd>>,
                     userId |-> s.socketToRoom[c].userId,
                     content |-> data.content,
                     type |-> data.type,
                     timestamp |-> now ]
    IN IoTo(s, s.socketToRoom[c].roomId, "chat:message", message)

\* ------------------------------------------- voice:offer / answer / ice
\* mutant: the handler does not look the sender up
VoiceRelayUnbound(s, c, ev, data) ==
  IoTo(s, data.targetUserId, ev, [userId |-> c, payload |-> data.payload])

VoiceRelay(s, c, ev, data) ==
  IF c \notin DOMAIN s.socketToRoom THEN s
  ELSE IoTo(s, data.targetUserId, ev, [userId |-> c, payload |-> data.payload])

\* --------------------------------------------------------------- heartbeat
Heartbeat(s, c, now) ==
  IF c \notin DOMAIN s.socketToRoom THEN s
  ELSE
    LET r == s.socketToRoom[c].roomId
        u == s.socketToRoom[c].userId
        s1 == IF r \in DOMAIN s.members /\ u \in DOMAIN s.members[r]
              THEN [s EXCEPT !.members[r][u].lastHeartbeat = now]
              ELSE s
    IN IF s.socketToRoom[c].isOwner /\ r \in DOMAIN s1.rooms
       THEN [s1 EXCEPT !.rooms[r].lastOwnerHeartbeat = now]
       ELSE s1

\* ------------------------------------------------ dispatch on the variant
JoinRoom(v, s, c, data, now) ==
  IF v = "js" THEN JoinRoomJs(s, c, data, now) ELSE JoinRoomTs(s, c, data, now)

HandleLeaveRoom(v, s, c, now) ==
  IF v = "js" THEN HandleLeaveRoomJs(s, c, now) ELSE HandleLeaveRoomTs(s, c)

PlayUpdate(v, s, c, state) ==
  IF v = "js" THEN PlayUpdateJs(s, c, state) ELSE PlayUpdateTs(s, c, state)

\* ----------------------------------------------------------------- destroy
\* server.js: clearInterval(this.cleanupInterval), clearTimeout for every
\* value of roomDeletionTimers, roomDeletionTimers.clear()
DestroyJs(s) ==
  [s EXCEPT !.cleanupInterval = FALSE,
            !.timers = @ \ { s.roomDeletionTimers[r] : r \in DOMAIN s.roomDeletionTimers },
            !.roomDeletionTimers = EmptyMap]

\* watch-room-server.ts: clearInterval(this.cleanupInterval)
DestroyTs(s) == [s EXCEPT !.cleanupInterval = FALSE]

Destroy(v, s) == IF v = "js" THEN DestroyJs(s) ELSE DestroyTs(s)

\* =========================================================== state machine
VARIABLES
  variant,      \* which deployment runs: "js" or "ts"
  srv,          \* the WatchRoomServer instance and the socket.io adapter
  now,          \* Date.now(), in ms since the server was constructed
  advances,     \* how often the clock has moved (bounded)
  lastSweep,    \* when the setInterval callback last ran
  closed,       \* socket ids of connections that are gone
  creates,      \* how many room:create events were handled (bounded)
  cap,          \* the bounds of the run: [conns, least, rooms, tokens, creates, pwds,
                \* advances], whether private rooms are created and
                \* whether the history variables are recorded
  issued,       \* room id -> the reconnection record its creator's client
                \* stored (storeRoomInfo), with the creating connection
  expired,      \* ids of the rooms a deletion-timer callback has deleted
  cancelled,    \* the timer handles clearTimeout was called on while pending
  client,       \* one browser's useWatchRoom / usePlaySync state
  twin,         \* a watch-room-server.ts instance fed the same events as
                \* srv (only in the runs that compare the deployments)
  presented     \* <<connection, room>>: the connection sent the room's
                \* ownerToken in a room:join

\* the server's side of the state
server == <<variant, srv, now, advances, lastSweep, closed, creates, cap, issued, presented, expired, cancelled, twin>>

vars == <<server, client>>

Conns == 1 .. cap.conns
\* the values Math.random() takes in the run: in the first call of a
\* room:create (the room id) and in the second (the owner token)
Randoms == cap.least .. cap.rooms
TokenRandoms == cap.least .. cap.tokens
\* what generateRoomId returns for them
RoomIds == { GenerateRoomId(rnd) : rnd \in Randoms }
Tokens == { GenerateRoomId(rnd) : rnd \in TokenRandoms }
\* a token a client may send that no room was given
WrongTokens == { GenerateRoomId(cap.tokens + 1) }
Passwords == { 30 + i : i \in 1 .. cap.pwds }
\* the values of data.isPublic the clients send
Publics == IF cap.private THEN BOOLEAN ELSE {TRUE}

Connected == DOMAIN srv.sio

\* createRoom of the client hook: the record kept in localStorage
\* (its timestamp is the client's clock and is left out)
StoreRoomInfo(c, roomId, password, ownerToken) ==
  [ creator |-> c, roomId |-> roomId, password |-> password,
    ownerToken |-> ownerToken ]

\* the messages of the previous handler are gone when the next one starts
Begin == [srv EXCEPT !.out = <<>>]

\* the runs of the server alone leave the browser out
NoClient == [storage |-> 0]
\* the runs of one deployment have no second instance
NoTwin == [rooms |-> 0]

Start ==
  /\ variant \in Variants
  /\ srv = NewServer
  /\ now = 0
  /\ advances = 0
  /\ lastSweep = 0
  /\ closed = {}
  /\ creates = 0
  /\ issued = EmptyMap
  /\ presented = {}
  /\ expired = {}
  /\ cancelled = {}

Init ==
  /\ Start
  /\ twin = NoTwin
  /\ client = NoClient
  /\ cap = [conns |-> LifeConns, least |-> LifeLeast, creates |-> LifeCreates, rooms |-> LifeRooms, tokens |-> LifeTokens, pwds |-> LifePwds,
            advances |-> 0, history |-> TRUE, private |-> TRUE]

InitTime ==
  /\ Start
  /\ twin = NoTwin
  /\ client = NoClient
  /\ cap = [conns |-> TimeConns, least |-> TimeLeast, creates |-> TimeCreates, rooms |-> TimeRooms, tokens |-> TimeTokens, pwds |-> 0,
            advances |-> TimeAdvances, history |-> FALSE, private |-> FALSE]

InitRooms ==
  /\ Start
  /\ twin = NoTwin
  /\ client = NoClient
  /\ cap = [conns |-> RoomsConns, least |-> RoomsLeast, creates |-> RoomsCreates, rooms |-> RoomsRooms, tokens |-> RoomsTokens, pwds |-> 0,
            advances |-> 0, history |-> FALSE, private |-> FALSE]

InitRelay ==
  /\ Start
  /\ twin = NoTwin
  /\ client = NoClient
  /\ cap = [conns |-> RelayConns, least |-> RelayLeast, creates |-> RelayCreates, rooms |-> RelayRooms, tokens |-> RelayTokens, pwds |-> 0,
            advances |-> 0, history |-> FALSE, private |-> FALSE]

\* clearTimeout: the handles a handler takes out of the pending timers
\* (recorded in the runs with a clock)
ClearedTimers ==
  IF cap.advances > 0 THEN cancelled \cup (srv.timers \ srv'.timers) ELSE cancelled

Env == <<variant, now, advances, lastSweep, closed, creates, cap, client, twin>>

\* io.on('connection'): a new socket with a fresh id, joined to its own room
Connect(c) ==
  /\ c \notin Connected \cup closed
  /\ \A x \in Conns : x < c => x \in Connected \cup closed
  /\ srv' = [Begin EXCEPT !.sio = MapSet(@, c, {c})]
  /\ UNCHANGED <<Env, issued, presented, expired, cancelled>>

\* the socket closes: socket.io leaves all its rooms, then runs 'disconnect'
Disconnect(c) ==
  /\ c \in Connected
  /\ srv' = HandleLeaveRoom(variant, [Begin EXCEPT !.sio = MapDel(@, c)], c, now)
  /\ closed' = closed \cup {c}
  /\ cancelled' = ClearedTimers
  /\ UNCHANGED <<variant, now, advances, lastSweep, creates, cap, client, twin, issued, presented, expired>>

\* room:create; generateRoomId is called twice, and Math.random() may give
\* any of its values each time, one it gave before included
Create(c) ==
  /\ c \in Connected
  /\ creates < cap.creates
  /\ \E pw \in Passwords \cup {NoPwd}, pub \in Publics :
       \E rnd1 \in Randoms, rnd2 \in TokenRandoms :
         LET roomId == GenerateRoomId(rnd1)
             ownerToken == GenerateRoomId(rnd2)
         IN
         /\ srv' = CreateRoom(Begin, c, [password |-> pw, isPublic |-> pub],
                              roomId, ownerToken, now)
         /\ creates' = creates + 1
         /\ issued' = IF cap.history
                       THEN MapSet(issued, roomId, StoreRoomInfo(c, roomId, pw, ownerToken))
                       ELSE issued
         /\ UNCHANGED <<presented, expired, cancelled>>
  /\ UNCHANGED <<variant, now, advances, lastSweep, closed, cap, client, twin>>

\* the payloads a client may send with room:join
JoinData ==
  [ roomId : RoomIds, password : Passwords \cup {NoPwd},
    ownerToken : Tokens \cup WrongTokens \cup {NoToken} ]

Join(c) ==
  /\ c \in Connected
  /\ \E data \in JoinData :
          /\ srv' = JoinRoom(variant, Begin, c, data, now)
          /\ presented' = IF /\ cap.history
                             /\ data.roomId \in DOMAIN srv.rooms
                             /\ data.ownerToken = srv.rooms[data.roomId].ownerToken
                          THEN presented \cup {<<c, data.roomId>>}
                          ELSE presented
  /\ cancelled' = ClearedTimers
  /\ UNCHANGED <<Env, issued, expired>>

Leave(c) ==
  /\ c \in Connected
  /\ srv' = HandleLeaveRoom(variant, Begin, c, now)
  /\ cancelled' = ClearedTimers
  /\ UNCHANGED <<Env, issued, presented, expired>>

List(c) ==
  /\ c \in Connected
  /\ srv' = ListRooms(Begin, c)
  /\ UNCHANGED <<Env, issued, presented, expired, cancelled>>

PlayUpdateEv(c) ==
  /\ c \in Connected
  /\ \E st \in PlayStates :
       /\ srv' = PlayUpdate(variant, Begin, c, st)
  /\ UNCHANGED <<Env, issued, presented, expired, cancelled>>

PlayRelayEv(c) ==
  /\ c \in Connected
  /\ \E ev \in {"play:seek", "play:play", "play:pause"} :
       \E arg \in IF ev = "play:seek" THEN 1 .. MaxPayload ELSE {0} :
         /\ srv' = PlayRelay(Begin, c, ev, arg)
  /\ UNCHANGED <<Env, issued, presented, expired, cancelled>>

PlayChangeEv(c) ==
  /\ c \in Connected
  /\ \E st \in PlayStates :
       /\ srv' = OwnerChange(Begin, c, "play:change", st)
  /\ UNCHANGED <<Env, issued, presented, expired, cancelled>>

LiveChangeEv(c) ==
  /\ c \in Connected
  /\ \E st \in LiveStates :
       /\ srv' = OwnerChange(Begin, c, "live:change", st)
  /\ UNCHANGED <<Env, issued, presented, expired, cancelled>>

ChatEv(c) ==
  /\ c \in Connected
  /\ \E content \in 1 .. MaxPayload, type \in {"text", "emoji"}, rnd \in 1 .. MaxPayload :
       LET data == [content |-> content, type |-> type]
       IN /\ srv' = ChatMessage(Begin, c, data, rnd, now)
  /\ UNCHANGED <<Env, issued, presented, expired, cancelled>>

VoiceEv(c) ==
  /\ c \in Connected
  /\ \E ev \in {"voice:offer", "voice:answer", "voice:ice"},
        target \in Conns \cup RoomIds, payload \in 1 .. MaxPayload :
       LET data == [targetUserId |-> target, payload |-> payload]
       IN /\ srv' = VoiceRelay(Begin, c, ev, data)
  /\ UNCHANGED <<Env, issued, presented, expired, cancelled>>

HeartbeatEv(c) ==
  /\ c \in Connected
  /\ srv' = Heartbeat(Begin, c, now)
  /\ UNCHANGED <<Env, issued, presented, expired, cancelled>>

\* a setTimeout armed by handleLeaveRoom expires
GraceTimerFire(h) ==
  /\ h \in srv.timers
  /\ now >= h.due
  /\ srv' = DeletionTimerCallback(Begin, h)
  /\ expired' = expired \cup (DOMAIN srv.rooms \ DOMAIN srv'.rooms)
  /\ UNCHANGED <<Env, issued, presented, cancelled>>

\* the setInterval callback of startCleanupTimer runs
Sweep ==
  /\ srv.cleanupInterval
  /\ now - lastSweep >= SweepPeriod
  /\ srv' = CleanupSweep(variant, Begin, now)
  /\ lastSweep' = now
  /\ UNCHANGED <<variant, now, advances, closed, creates, cap, client, twin, issued, presented, expired, cancelled>>

\* wall-clock time passes
Advance(d) ==
  /\ advances < cap.advances
  /\ now' = now + d
  /\ advances' = advances + 1
  /\ UNCHANGED <<variant, srv, lastSweep, closed, creates, cap, client, twin, issued, presented, expired, cancelled>>

\* the room lifecycle while the clock stands still
Next ==
  \/ \E c \in Conns : Connect(c)
  \/ \E c \in Conns : Disconnect(c)
  \/ \E c \in Conns : Create(c)
  \/ \E c \in Conns : Join(c)
  \/ \E c \in Conns : Leave(c)
  \/ \E c \in Conns : List(c)

Spec == Init /\ [][Next]_vars

SpecRooms == InitRooms /\ [][Next]_vars

\* the room lifecycle with heartbeats, the deletion timers and the sweep
NextTime ==
  \/ \E c \in Conns : Connect(c)
  \/ \E c \in Conns : Disconnect(c)
  \/ \E c \in Conns : Create(c)
  \/ \E c \in Conns : Join(c)
  \/ \E c \in Conns : Leave(c)
  \/ \E c \in Conns : List(c)
  \/ \E c \in Conns : HeartbeatEv(c)
  \/ \E h \in srv.timers : GraceTimerFire(h)
  \/ Sweep
  \/ \E d \in Deltas : Advance(d)

SpecTime == InitTime /\ [][NextTime]_vars

\* SIGINT / SIGTERM: watchRoomServer.destroy(); the sockets stay open and
\* their handlers registered until the process exits, and every further
\* signal runs destroy() again
DestroyEv ==
  /\ srv' = Destroy(variant, Begin)
  /\ cancelled' = ClearedTimers
  /\ UNCHANGED <<Env, issued, presented, expired>>

\* the same as NextTime, with a shutdown signal at any moment
NextGrace ==
  \/ NextTime
  \/ DestroyEv

\* the event loop runs every timer callback that is due
SpecGrace ==
  /\ InitTime
  /\ [][NextGrace]_vars
  /\ WF_vars(\E h \in srv.timers : GraceTimerFire(h))

\* every client event of the protocol
NextRelay ==
  \/ \E c \in Conns : Connect(c)
  \/ \E c \in Conns : Disconnect(c)
  \/ \E c \in Conns : Create(c)
  \/ \E c \in Conns : Join(c)
  \/ \E c \in Conns : Leave(c)
  \/ \E c \in Conns : List(c)
  \/ \E c \in Conns : PlayUpdateEv(c)
  \/ \E c \in Conns : PlayRelayEv(c)
  \/ \E c \in Conns : PlayChangeEv(c)
  \/ \E c \in Conns : LiveChangeEv(c)
  \/ \E c \in Conns : ChatEv(c)
  \/ \E c \in Conns : VoiceEv(c)
  \/ \E c \in Conns : HeartbeatEv(c)

SpecRelay == InitRelay /\ [][NextRelay]_vars

\* the room lifecycle of two connections
SpecCollide == InitRelay /\ [][Next]_vars

\* the members and the deletion timers, with a clock that moves once: a
\* room:create that repeats an id lets a timer outlive the room it was
\* armed for
NextExpire ==
  \/ \E c \in Conns : Connect(c)
  \/ \E c \in Conns : Disconnect(c)
  \/ \E c \in Conns : Create(c)
  \/ \E c \in Conns : Join(c)
  \/ \E c \in Conns : Leave(c)
  \/ \E h \in srv.timers : GraceTimerFire(h)
  \/ \E d \in Deltas : Advance(d)

SpecExpire == InitTime /\ [][NextExpire]_vars

\* ------------------------------------------- the two deployments side by side
\* srv is the WatchRoomServer of server.js, twin the one of
\* watch-room-server.ts; both are handed every event, with the same
\* payload, clock and generated ids
TwinBegin == [twin EXCEPT !.out = <<>>]

InitTwin ==
  /\ variant = "js"
  /\ srv = NewServer
  /\ twin = NewServer
  /\ now = 0
  /\ advances = 0
  /\ lastSweep = 0
  /\ closed = {}
  /\ creates = 0
  /\ issued = EmptyMap
  /\ presented = {}
  /\ expired = {}
  /\ cancelled = {}
  /\ client = NoClient
  /\ cap = [conns |-> RelayConns, least |-> RelayLeast, creates |-> RelayCreates, rooms |-> RelayRooms, tokens |-> RelayTokens, pwds |-> 0,
            advances |-> 0, history |-> FALSE, private |-> FALSE]

TwinSame == <<variant, now, advances, lastSweep, cap, client, issued, presented, expired, cancelled>>

TwinConnect(c) ==
  /\ c \notin Connected \cup closed
  /\ \A x \in Conns : x < c => x \in Connected \cup closed
  /\ srv' = [Begin EXCEPT !.sio = MapSet(@, c, {c})]
  /\ twin' = [TwinBegin EXCEPT !.sio = MapSet(@, c, {c})]
  /\ UNCHANGED <<TwinSame, closed, creates>>

TwinDisconnect(c) ==
  /\ c \in Connected
  /\ srv' = HandleLeaveRoom("js", [Begin EXCEPT !.sio = MapDel(@, c)], c, now)
  /\ twin' = HandleLeaveRoom("ts", [TwinBegin EXCEPT !.sio = MapDel(@, c)], c, now)
  /\ closed' = closed \cup {c}
  /\ UNCHANGED <<TwinSame, creates>>

TwinCreate(c) ==
  /\ c \in Connected
  /\ creates < cap.creates
  /\ \E pub \in Publics, rnd1 \in Randoms, rnd2 \in TokenRandoms :
       LET roomId == GenerateRoomId(rnd1)
           ownerToken == GenerateRoomId(rnd2)
           data == [password |-> NoPwd, isPublic |-> pub]
       IN /\ srv' = CreateRoom(Begin, c, data, roomId, ownerToken, now)
          /\ twin' = CreateRoom(TwinBegin, c, data, roomId, ownerToken, now)
          /\ creates' = creates + 1
  /\ UNCHANGED <<TwinSame, closed>>

TwinJoin(c) ==
  /\ c \in Connected
  /\ \E data \in JoinData :
       /\ srv' = JoinRoom("js", Begin, c, data, now)
       /\ twin' = JoinRoom("ts", TwinBegin, c, data, now)
  /\ UNCHANGED <<TwinSame, closed, creates>>

TwinLeave(c) ==
  /\ c \in Connected
  /\ srv' = HandleLeaveRoom("js", Begin, c, now)
  /\ twin' = HandleLeaveRoom("ts", TwinBegin, c, now)
  /\ UNCHANGED <<TwinSame, closed, creates>>

TwinPlayUpdate(c) ==
  /\ c \in Connected
  /\ \E st \in PlayStates :
       /\ srv' = PlayUpdate("js", Begin, c, st)
       /\ twin' = PlayUpdate("ts", TwinBegin, c, st)
  /\ UNCHANGED <<TwinSame, closed, creates>>

NextTwin ==
  \/ \E c \in Conns : TwinConnect(c)
  \/ \E c \in Conns : TwinDisconnect(c)
  \/ \E c \in Conns : TwinCreate(c)
  \/ \E c \in Conns : TwinJoin(c)
  \/ \E c \in Conns : TwinLeave(c)
  \/ \E c \in Conns : TwinPlayUpdate(c)

SpecTwin == InitTwin /\ [][NextTwin]_vars

\* the clocked room lifecycle with a shutdown at any moment
NextDestroy ==
  \/ \E c \in Conns : Connect(c)
  \/ \E c \in Conns : Disconnect(c)
  \/ \E c \in Conns : Create(c)
  \/ \E c \in Conns : Join(c)
  \/ \E c \in Conns : Leave(c)
  \/ \E h \in srv.timers : GraceTimerFire(h)
  \/ Sweep
  \/ \E d \in Deltas : Advance(d)
  \/ DestroyEv

SpecDestroy == InitTime /\ [][NextDestroy]_vars

\* the room lifecycle and the chat, with two rooms to be bound to
NextChat ==
  \/ \E c \in Conns : Connect(c)
  \/ \E c \in Conns : Disconnect(c)
  \/ \E c \in Conns : Create(c)
  \/ \E c \in Conns : Join(c)
  \/ \E c \in Conns : Leave(c)
  \/ \E c \in Conns : List(c)
  \/ \E c \in Conns : ChatEv(c)

SpecChat == InitRooms /\ [][NextChat]_vars

\* the room lifecycle and the playback commands, with two rooms to be bound to
NextSeek ==
  \/ \E c \in Conns : Connect(c)
  \/ \E c \in Conns : Disconnect(c)
  \/ \E c \in Conns : Create(c)
  \/ \E c \in Conns : Join(c)
  \/ \E c \in Conns : Leave(c)
  \/ \E c \in Conns : List(c)
  \/ \E c \in Conns : PlayRelayEv(c)

SpecSeek == InitRooms /\ [][NextSeek]_vars

\* ================================================================ claims
\* the messages of the last handler
Out == { srv.out[i] : i \in 1 .. Len(srv.out) }
OutNext == { srv'.out[i] : i \in 1 .. Len(srv'.out) }

\* the Room snapshots a message carries
Snapshots(m) ==
  IF m.ev = "room:list" THEN m.data
  ELSE IF m.ev \in {"room:create", "room:join"} /\ m.data.success THEN {m.data.room}
  ELSE {}

\* how many times connection c is sent event ev with payload d by the last handler
Received(s, c, ev, d) ==
  Cardinality({ i \in 1 .. Len(s.out) :
                  s.out[i].to = c /\ s.out[i].ev = ev /\ s.out[i].data = d })

\* how many times connection c is sent event ev, whatever the payload
ReceivedAny(s, c, ev) ==
  Cardinality({ i \in 1 .. Len(s.out) : s.out[i].to = c /\ s.out[i].ev = ev })

\* ---------------------------------------------------------------------- C1
\* C1: in either variant and after any sequence of create, join, leave,
\* disconnect, sweep and timer events, every room's memberCount equals the
\* number of entries of its member map.
MemberCountMatches ==
  \A r \in DOMAIN srv.rooms :
    /\ r \in DOMAIN srv.members
    /\ srv.rooms[r].memberCount = Cardinality(DOMAIN srv.members[r])

\* a member has just left a room that keeps one member, after time has passed
MemberCountWitness ==
  \E r \in DOMAIN srv.rooms :
    /\ srv.rooms[r].memberCount = 1
    /\ Cardinality(DOMAIN srv.members[r]) = 1
    /\ \E m \in Out : m.ev = "room:member-left"
    /\ now > 0

\* ---------------------------------------------------------------------- C2
\* C2: every room's member map holds at most one Member with isOwner = true.
AtMostOneOwner ==
  \A r \in DOMAIN srv.members :
    Cardinality({ u \in DOMAIN srv.members[r] : srv.members[r][u].isOwner }) <= 1

\* ---------------------------------------------------------------------- C3
\* C3: a message that carries a room's ownerToken is delivered only to the
\* connection that created the room or to one that itself presented the
\* token; the join reply to another joiner and the list reply do not carry it.
OwnerTokenConfined ==
  \A m \in Out :
    \A room \in Snapshots(m) :
      room.ownerToken # NoToken =>
        \/ /\ room.id \in DOMAIN issued
           /\ issued[room.id].creator = m.to
        \/ <<m.to, room.id>> \in presented

\* ---------------------------------------------------------------------- C4
\* the reply to c's room:join reports success
JoinSucceeded(s, c) ==
  \E i \in 1 .. Len(s.out) :
    /\ s.out[i].to = c
    /\ s.out[i].ev = "room:join"
    /\ s.out[i].data.success

\* C4: once the disconnect of a room's creator has been handled, a join of a
\* new connection that sends the stored roomId, password and ownerToken
\* before the owner timeout has elapsed succeeds and makes it the owner.
OwnerReclaimsAfterDisconnect ==
  [][ \A c \in Conns : \A r \in DOMAIN issued :
        LET data == [roomId |-> r, password |-> issued[r].password,
                     ownerToken |-> issued[r].ownerToken]
        IN ( /\ issued[r].creator \in closed
             /\ c \in Connected
             /\ now <= OwnerTimeout
             /\ srv' = JoinRoom(variant, Begin, c, data, now) )
           => /\ JoinSucceeded(srv', c)
              /\ r \in DOMAIN srv'.rooms
              /\ srv'.rooms[r].ownerId = c
              /\ srv'.socketToRoom[c].isOwner ]_vars

\* ---------------------------------------------------------------------- C5
\* C5: in server.js, a successful join that sends the room's ownerToken makes
\* the joiner's Member and ConnectionIndex entry isOwner = true, sets
\* room.ownerId to the joiner, refreshes room.lastOwnerHeartbeat and leaves
\* no deletion timer armed for the room; a successful join with an absent or
\* different ownerToken leaves room.ownerId unchanged and gives isOwner = false.
OwnerTokenJoinJs ==
  [][ variant = "js" =>
      \A c \in Conns : \A data \in JoinData :
        ( /\ c \in Connected
          /\ data.roomId \in DOMAIN srv.rooms
          /\ srv' = JoinRoomJs(Begin, c, data, now)
          /\ JoinSucceeded(srv', c) )
        => LET r == data.roomId
           IN IF data.ownerToken = srv.rooms[r].ownerToken
              THEN /\ srv'.members[r][c].isOwner
                   /\ srv'.socketToRoom[c].isOwner
                   /\ srv'.socketToRoom[c].roomId = r
                   /\ srv'.rooms[r].ownerId = c
                   /\ srv'.rooms[r].lastOwnerHeartbeat = now
                   /\ r \notin DOMAIN srv'.roomDeletionTimers
                   /\ \A h \in srv'.timers : h.roomId # r
              ELSE /\ srv'.rooms[r].ownerId = srv.rooms[r].ownerId
                   /\ ~srv'.members[r][c].isOwner
                   /\ ~srv'.socketToRoom[c].isOwner ]_vars

\* ---------------------------------------------------------------------- C6
\* C6: a join that names an unknown room, or sends a password different from
\* the room's set password, is answered with success = false and an error
\* and nothing else; rooms, member maps, memberCount, the ConnectionIndex and
\* the timers stay as they were and no other message is emitted.
FailedJoinChangesNothing ==
  [][ \A c \in Conns : \A data \in JoinData :
        ( /\ c \in Connected
          /\ srv' = JoinRoom(variant, Begin, c, data, now)
          /\ \/ data.roomId \notin DOMAIN srv.rooms
             \/ /\ srv.rooms[data.roomId].password # NoPwd
                /\ srv.rooms[data.roomId].password # data.password )
        => /\ Len(srv'.out) = 1
           /\ srv'.out[1].to = c
           /\ srv'.out[1].ev = "room:join"
           /\ srv'.out[1].data.success = FALSE
           /\ DOMAIN srv'.out[1].data = {"success", "error"}
           /\ [srv' EXCEPT !.out = <<>>] = Begin ]_vars

\* a join with the wrong password has just been refused for an occupied room
FailedJoinWitness ==
  /\ Len(srv.out) = 1
  /\ srv.out[1].ev = "room:join"
  /\ ~srv.out[1].data.success
  /\ srv.out[1].data.error = "WRONG_PASSWORD"
  /\ \E r \in DOMAIN srv.rooms :
       /\ srv.rooms[r].password # NoPwd
       /\ srv.rooms[r].memberCount >= 1
       /\ srv.out[1].to \notin DOMAIN srv.members[r]

\* -------------------------------------------------------------- C7, C8, C9
\* connection c is bound to an existing room whose member map holds somebody
\* else, and this step is the handling of c's room:leave or of c's disconnect
LeavesOccupiedRoom(c) ==
  /\ c \in Connected
  /\ c \in DOMAIN srv.socketToRoom
  /\ srv.socketToRoom[c].roomId \in DOMAIN srv.rooms
  /\ srv.socketToRoom[c].roomId \in DOMAIN srv.members
  /\ DOMAIN srv.members[srv.socketToRoom[c].roomId] \ {c} # {}
  /\ \/ srv' = HandleLeaveRoom(variant, Begin, c, now)
     \/ srv' = HandleLeaveRoom(variant, [Begin EXCEPT !.sio = MapDel(@, c)], c, now)

\* the other members of the room connection c is bound to
OtherMembers(c) == DOMAIN srv.members[srv.socketToRoom[c].roomId] \ {c}

\* C7: when the owner leaves or disconnects from a room with n >= 1 other
\* members, each of them is sent exactly one room:deleted, with reason
\* "owner_left"; the recipients are the members of the room as it was before
\* anything was removed, and no reason-less room:deleted is sent as well.
OwnerLeftNotifiesMembers ==
  [][ \A c \in Conns :
        ( LeavesOccupiedRoom(c) /\ srv.socketToRoom[c].isOwner )
        => \A u \in OtherMembers(c) :
             /\ ReceivedAny(srv', u, "room:deleted") = 1
             /\ Received(srv', u, "room:deleted", [reason |-> "owner_left"]) = 1 ]_vars

\* a fire-and-forget event from connection u changes nothing in server
\* state s and emits nothing
FireAndForgetIgnored(v, s, u, t) ==
  /\ \A st \in PlayStates : /\ PlayUpdate(v, s, u, st) = s
                            /\ OwnerChange(s, u, "play:change", st) = s
  /\ \A st \in LiveStates : OwnerChange(s, u, "live:change", st) = s
  /\ \A ev \in {"play:seek", "play:play", "play:pause"} : PlayRelay(s, u, ev, 0) = s
  /\ ChatMessage(s, u, [content |-> 1, type |-> "text"], 1, t) = s
  /\ VoiceRelay(s, u, "voice:offer", [targetUserId |-> u, payload |-> 1]) = s
  /\ Heartbeat(s, u, t) = s

\* C8: right after the owner's leave or disconnect is handled, the room and
\* its member map are gone, no other member of the room has a
\* ConnectionIndex entry, no deletion timer is armed for the room id, and a
\* fire-and-forget event from a former member has no effect.
OwnerLeftRemovesRoom ==
  [][ \A c \in Conns :
        ( LeavesOccupiedRoom(c) /\ srv.socketToRoom[c].isOwner )
        => LET r == srv.socketToRoom[c].roomId
           IN /\ r \notin DOMAIN srv'.rooms
              /\ r \notin DOMAIN srv'.members
              /\ \A u \in OtherMembers(c) \cup {c} : u \notin DOMAIN srv'.socketToRoom
              /\ r \notin DOMAIN srv'.roomDeletionTimers
              /\ \A h \in srv'.timers : h.roomId # r
              /\ \A u \in OtherMembers(c) \cup {c} :
                   FireAndForgetIgnored(variant, [srv' EXCEPT !.out = <<>>], u, now) ]_vars

\* C9: when a non-owner leaves or disconnects from a room that keeps at least
\* one other member, every remaining member is sent room:member-left with the
\* departed user id, the room stays, its memberCount goes down by one, the
\* departed connection's ConnectionIndex entry is removed, nobody is sent
\* room:deleted and no deletion timer is armed.
MemberLeftKeepsRoom ==
  [][ \A c \in Conns :
        ( LeavesOccupiedRoom(c) /\ ~srv.socketToRoom[c].isOwner )
        => LET r == srv.socketToRoom[c].roomId
           IN /\ \A u \in OtherMembers(c) : Received(srv', u, "room:member-left", c) = 1
              /\ r \in DOMAIN srv'.rooms
              /\ srv'.rooms[r].memberCount = srv.rooms[r].memberCount - 1
              /\ c \notin DOMAIN srv'.socketToRoom
              /\ \A i \in 1 .. Len(srv'.out) : srv'.out[i].ev # "room:deleted"
              /\ srv'.timers = srv.timers
              /\ srv'.roomDeletionTimers = srv.roomDeletionTimers ]_vars

\* --------------------------------------------------------------------- C10
\* the room ids of the runs with a clock
TimeRoomIds == { GenerateRoomId(rnd) : rnd \in TimeLeast .. TimeRooms }

\* room r is registered and its member map is empty
EmptyRoom(r) ==
  /\ r \in DOMAIN srv.rooms
  /\ r \in DOMAIN srv.members
  /\ DOMAIN srv.members[r] = {}

\* the last handler's room:list reply, if any, omits room r
Unlisted(r) ==
  \A i \in 1 .. Len(srv.out) :
    srv.out[i].ev = "room:list" => \A x \in srv.out[i].data : x.id # r

\* the last handler was a room:join to room r that succeeded
JoinedNow(r) ==
  \E i \in 1 .. Len(srv.out) :
    /\ srv.out[i].ev = "room:join"
    /\ srv.out[i].data.success
    /\ srv.out[i].data.room.id = r

\* C10: in server.js, a room emptied by the leave of its last member, a
\* non-owner, has a deletion timer due within the grace delay for as long
\* as it is empty; once that delay is over, the room is deleted unless
\* somebody has joined it; and a room that is not registered is in no
\* room:list reply.
GraceDeletion ==
  /\ [] ( variant = "js" =>
            \A r \in DOMAIN srv.rooms :
              EmptyRoom(r) => \E h \in srv.timers :
                                /\ h.roomId = r
                                /\ h.due <= now + GraceDelay
                                /\ r \in DOMAIN srv.roomDeletionTimers
                                /\ srv.roomDeletionTimers[r] = h )
  /\ \A r \in TimeRoomIds :
       ( variant = "js" /\ EmptyRoom(r) /\ \E h \in srv.timers : h.roomId = r /\ now >= h.due )
         ~> ( JoinedNow(r) \/ r \notin DOMAIN srv.rooms )
  /\ [] ( variant = "js" =>
            \A r \in TimeRoomIds : r \notin DOMAIN srv.rooms => Unlisted(r) )

\* --------------------------------------------------------------------- C11
\* C11: in server.js, a successful join to an emptied room clears the room's
\* deletion timer in the same handler, whether or not the timer is already
\* due: the room stays, no timer and no roomDeletionTimers entry is left for
\* it, a pending timer never belongs to an occupied room, and a timer
\* callback that finds members deletes nothing and emits nothing.
JoinCancelsGraceTimer ==
  /\ [][ variant = "js" =>
         \A c \in Conns : \A data \in JoinData :
           ( /\ c \in Connected
             /\ EmptyRoom(data.roomId)
             /\ srv' = JoinRoomJs(Begin, c, data, now)
             /\ JoinSucceeded(srv', c) )
           => /\ data.roomId \in DOMAIN srv'.rooms
              /\ c \in DOMAIN srv'.members[data.roomId]
              /\ data.roomId \notin DOMAIN srv'.roomDeletionTimers
              /\ \A h \in srv'.timers : h.roomId # data.roomId ]_vars
  /\ [] ( variant = "js" =>
            \A h \in srv.timers :
              h.roomId \in DOMAIN srv.rooms => EmptyRoom(h.roomId) )
  /\ [][ variant = "js" =>
         \A h \in srv.timers :
           ( /\ srv' = DeletionTimerCallback(Begin, h)
             /\ h.roomId \in DOMAIN srv.members
             /\ DOMAIN srv.members[h.roomId] # {} )
           => /\ srv'.rooms = srv.rooms
              /\ srv'.members = srv.members
              /\ srv'.out = <<>> ]_vars

\* --------------------------------------------------------------------- C12
\* C12: when the setInterval callback runs, every room whose
\* lastOwnerHeartbeat is more than the timeout old is removed together with
\* its member map, and room:deleted is sent to every connection in the room,
\* connected members and owner included; no leave or disconnect is needed.
SweepDeletesStaleRooms ==
  [][ ( /\ now - lastSweep >= SweepPeriod
        /\ srv' = CleanupSweep(variant, Begin, now) )
      => \A r \in DOMAIN srv.rooms :
           now - srv.rooms[r].lastOwnerHeartbeat > OwnerTimeout
           => /\ r \notin DOMAIN srv'.rooms
              /\ r \notin DOMAIN srv'.members
              /\ \A u \in InRoom(srv, r) \cup (DOMAIN srv.members[r] \cap Connected) :
                   Received(srv', u, "room:deleted", NoReason) >= 1 ]_vars

\* the sweep has just deleted the room of an owner who never left and is
\* still connected, and told it so
SweepDeletesStaleRoomsWitness ==
  /\ lastSweep = now
  /\ now > OwnerTimeout
  /\ closed = {}
  /\ \E i \in 1 .. Len(srv.out) :
       /\ srv.out[i].ev = "room:deleted"
       /\ srv.out[i].data = NoReason
       /\ srv.out[i].to \in Connected
       /\ srv.out[i].to \in DOMAIN srv.socketToRoom
       /\ srv.socketToRoom[srv.out[i].to].isOwner
       /\ srv.socketToRoom[srv.out[i].to].roomId \notin DOMAIN srv.rooms

\* ---------------------------------------------------------------- C13, C14
\* connection c is the current owner of the room it is bound to
IsCurrentOwner(c) ==
  /\ c \in DOMAIN srv.socketToRoom
  /\ srv.socketToRoom[c].roomId \in DOMAIN srv.rooms
  /\ srv.rooms[srv.socketToRoom[c].roomId].ownerId = c

\* C13: a play:change or live:change sent by a connection that is not the
\* current owner of its room (room.ownerId) changes no state and is relayed
\* to nobody.
OnlyOwnerChanges ==
  [][ \A c \in Conns : \A st \in PlayStates \cup LiveStates :
        \A ev \in {"play:change", "live:change"} :
          ( /\ c \in Connected
            /\ ~IsCurrentOwner(c)
            /\ srv' = OwnerChange(Begin, c, ev, st) )
          => srv' = Begin ]_vars

\* C14: a play:update sent by a connection that is not the current owner of
\* its room changes no state and is relayed to nobody, in both variants.
OnlyOwnerUpdates ==
  [][ \A c \in Conns : \A st \in PlayStates :
        ( /\ c \in Connected
          /\ ~IsCurrentOwner(c)
          /\ srv' = PlayUpdate(variant, Begin, c, st) )
        => srv' = Begin ]_vars

\* --------------------------------------------------------------------- C15
\* C15: a chat:message from a bound connection reaches the sender and every
\* member of the sender's room exactly once, as one ChatMessage that carries
\* the sent content and type, the sender's user id, an id and the server's
\* clock as timestamp; the clock, and with it the timestamps emitted to a
\* room, never goes back.
ChatReachesRoom ==
  /\ [][ \A c \in Conns : \A content \in 1 .. MaxPayload :
           \A type \in {"text", "emoji"} : \A rnd \in 1 .. MaxPayload :
             ( /\ c \in Connected
               /\ c \in DOMAIN srv.socketToRoom
               /\ srv' = ChatMessage(Begin, c, [content |-> content, type |-> type], rnd, now) )
             => LET r == srv.socketToRoom[c].roomId
                    message == [ id |-> <<now, rnd>>, userId |-> c, content |-> content,
                                 type |-> type, timestamp |-> now ]
                    roomMembers == IF r \in DOMAIN srv.members
                                   THEN DOMAIN srv.members[r] ELSE {}
                IN \A u \in {c} \cup roomMembers :
                     /\ Received(srv', u, "chat:message", message) = 1
                     /\ ReceivedAny(srv', u, "chat:message") = 1 ]_vars
  /\ [][ now' >= now ]_vars

\* --------------------------------------------------------------------- C16
\* C16: in every reachable state a registered room with an empty member map
\* has a pending deletion timer, the one roomDeletionTimers holds for its id
\* (watch-room-server.ts, which has no timers, never keeps an empty room).
EmptyRoomHasTimer ==
  \A r \in DOMAIN srv.rooms :
    EmptyRoom(r) =>
      /\ variant = "js"
      /\ r \in DOMAIN srv.roomDeletionTimers
      /\ srv.roomDeletionTimers[r] \in srv.timers
      /\ srv.roomDeletionTimers[r].roomId = r

\* --------------------------------------------------------------------- C18
\* C18: in server.js at most one deletion timer is pending per room id, and
\* a step that starts a timer for a room id finds no pending timer for it.
OneTimerPerRoom ==
  /\ [] ( variant = "js" =>
            \A g \in srv.timers : \A h \in srv.timers : g.roomId = h.roomId => g = h )
  /\ [][ variant = "js" =>
         \A h \in srv'.timers \ srv.timers :
           \A g \in srv.timers : g.roomId # h.roomId ]_vars

\* --------------------------------------------------------------------- C17
\* a chat:message, play:seek, play:play, play:pause, play:update,
\* play:change, live:change or heartbeat from connection u changes nothing
\* in server state s and emits nothing
RoomEventsIgnored(v, s, u, t) ==
  /\ \A st \in PlayStates : /\ PlayUpdate(v, s, u, st) = s
                            /\ OwnerChange(s, u, "play:change", st) = s
  /\ \A st \in LiveStates : OwnerChange(s, u, "live:change", st) = s
  /\ \A ev \in {"play:seek", "play:play", "play:pause"} : PlayRelay(s, u, ev, 0) = s
  /\ \A type \in {"text", "emoji"} :
       ChatMessage(s, u, [content |-> 1, type |-> type], 1, t) = s
  /\ Heartbeat(s, u, t) = s

\* C17: once a room is deleted, by disbandment, timer expiry or the sweep,
\* the room events of a connection that was bound to it are no-ops: nothing
\* is emitted and no state changes.
DeletedRoomIsSilent ==
  \A c \in Connected :
    ( /\ c \in DOMAIN srv.socketToRoom
      /\ srv.socketToRoom[c].roomId \notin DOMAIN srv.rooms )
    => RoomEventsIgnored(variant, Begin, c, now)

\* --------------------------------------------------------------------- C19
\* C19: in server.js no deletion timer is pending and no roomDeletionTimers
\* entry is kept for a room id that is no longer registered.
NoTimerForDeletedRoom ==
  variant = "js" =>
    /\ \A r \in DOMAIN srv.roomDeletionTimers : r \in DOMAIN srv.rooms
    /\ \A h \in srv.timers : h.roomId \in DOMAIN srv.rooms

\* --------------------------------------------------------------------- C20
\* C20: in every reachable state every socketToRoom entry names a
\* registered room whose member map holds the entry's user id.
IndexEntriesAreMembers ==
  \A c \in DOMAIN srv.socketToRoom :
    /\ srv.socketToRoom[c].roomId \in DOMAIN srv.rooms
    /\ srv.socketToRoom[c].roomId \in DOMAIN srv.members
    /\ srv.socketToRoom[c].userId \in DOMAIN srv.members[srv.socketToRoom[c].roomId]

\* --------------------------------------------------------------------- C21
\* C21: in every reachable state every Member of a room's member map has a
\* socketToRoom entry bound to that room, so no member stays in a map after
\* its connection closed or was bound to another room.
MembersAreIndexed ==
  \A r \in DOMAIN srv.members : \A u \in DOMAIN srv.members[r] :
    /\ u \in DOMAIN srv.socketToRoom
    /\ srv.socketToRoom[u].roomId = r

\* --------------------------------------------------------------------- C22
\* C22: the room:list reply is exactly the set of registered rooms with
\* isPublic = true, and a join by id succeeds or fails by the password rule
\* alone, whether the room is public or not.
ListIsPublicRooms ==
  /\ [][ \A c \in Conns :
           ( c \in Connected /\ srv' = ListRooms(Begin, c) )
           => /\ Len(srv'.out) = 1
              /\ srv'.out[1].to = c
              /\ srv'.out[1].ev = "room:list"
              /\ srv'.out[1].data =
                   { srv.rooms[r] : r \in { x \in DOMAIN srv.rooms : srv.rooms[x].isPublic } }
              /\ [srv' EXCEPT !.out = <<>>] = Begin ]_vars
  /\ [][ \A c \in Conns : \A data \in JoinData :
           ( /\ c \in Connected
             /\ data.roomId \in DOMAIN srv.rooms
             /\ srv' = JoinRoom(variant, Begin, c, data, now) )
           => ( JoinSucceeded(srv', c)
                <=> \/ srv.rooms[data.roomId].password = NoPwd
                    \/ srv.rooms[data.roomId].password = data.password ) ]_vars

\* a room:list reply has just left out a registered private room that a
\* second connection has joined by id with the room's password
ListIsPublicRoomsWitness ==
  /\ Len(srv.out) = 1
  /\ srv.out[1].ev = "room:list"
  /\ srv.out[1].data = {}
  /\ \E r \in DOMAIN srv.rooms :
       /\ ~srv.rooms[r].isPublic
       /\ srv.rooms[r].password # NoPwd
       /\ \E u \in DOMAIN srv.members[r] : u # srv.rooms[r].ownerId

\* --------------------------------------------------------------------- C23
\* C23: room:create never overwrites a registered room: the generated id is
\* not the id of a registered room, and after the create the new room's
\* member map holds exactly the creator, as owner, and the creator's
\* socketToRoom entry is bound to the room as owner.
CreateIsFresh ==
  [][ \A c \in Conns : \A roomId \in RoomIds : \A ownerToken \in Tokens :
        \A pw \in Passwords \cup {NoPwd} : \A pub \in BOOLEAN :
          ( /\ c \in Connected
            /\ srv' = CreateRoom(Begin, c, [password |-> pw, isPublic |-> pub],
                                 roomId, ownerToken, now) )
          => /\ roomId \notin DOMAIN srv.rooms
             /\ DOMAIN srv'.members[roomId] = {c}
             /\ srv'.members[roomId][c].isOwner
             /\ srv'.socketToRoom[c] = [roomId |-> roomId, userId |-> c, isOwner |-> TRUE] ]_vars

\* ================================================= the browser: useWatchRoom
\* localStorage without a reconnection record; reconnectTimeoutRef: null
NoRecord == [present |-> FALSE, roomId |-> 0, ownerToken |-> 0, timestamp |-> 0]
NoHandle == 0

\* mutant: the record's age is not checked
GetStoredRoomInfoAnyAge(storage, t) == [info |-> storage, storage |-> storage]

\* getStoredRoomInfo(): the record to use, and what is left in localStorage
GetStoredRoomInfo(storage, t) ==
  IF ~storage.present THEN [info |-> NoRecord, storage |-> storage]
  ELSE IF t - storage.timestamp > StoreTtl
       THEN [info |-> NoRecord, storage |-> NoRecord]
       ELSE [info |-> storage, storage |-> storage]

\* setTimeout: the handle of a new timeout, the least number not pending
NewHandle(timeouts) ==
  CHOOSE n \in 1 .. Cardinality(timeouts) + 1 : \A t \in timeouts : t.n # n

\* connected: the socket manager is connected; timeouts: the pending
\* setTimeout(rejoinRoom, 1000) calls; ref: reconnectTimeoutRef.current;
\* awaiting: the room:join events of rejoinRoom without an answer yet, a
\* bag, as two of them can carry the same record; emitted: the last of them; connects, emits: how many connect calls have
\* completed and how many room:join events rejoinRoom has sent
InitStore ==
  /\ Start
  /\ variant = "js"
  /\ twin = NoTwin
  /\ cap = [conns |-> RelayConns, least |-> RelayLeast, creates |-> RelayCreates,
            rooms |-> RelayRooms, tokens |-> RelayTokens, pwds |-> 0,
            advances |-> 0, history |-> FALSE, private |-> FALSE]
  /\ client = [ storage |-> NoRecord, clock |-> 0, ticks |-> 0, connected |-> FALSE,
                connects |-> 0, timeouts |-> {}, ref |-> NoHandle, awaiting |-> EmptyBag,
                emitted |-> NoRecord, emits |-> 0, dropped |-> FALSE ]

\* the success callback of createRoom / joinRoom: storeRoomInfo
ClientStoreRoomInfo ==
  /\ client.connected
  /\ \E roomId \in RoomIds, ownerToken \in Tokens \cup {NoToken} :
       client' = [client EXCEPT !.storage =
                    [present |-> TRUE, roomId |-> roomId, ownerToken |-> ownerToken,
                     timestamp |-> client.clock]]
  /\ UNCHANGED server

\* leaveRoom: clearStoredRoomInfo
ClientLeaveRoom ==
  /\ client.connected
  /\ client' = [client EXCEPT !.storage = NoRecord]
  /\ UNCHANGED server

\* socket.on('room:deleted'): clearStoredRoomInfo
ClientRoomDeleted ==
  /\ client.connected
  /\ client' = [client EXCEPT !.storage = NoRecord]
  /\ UNCHANGED server

\* connect, once the socket manager has connected: getStoredRoomInfo, and
\* if it returns a record another setTimeout(rejoinRoom, 1000), whose
\* handle replaces the one in reconnectTimeoutRef
ClientConnect ==
  /\ client.connects < MaxConnects
  /\ LET got == GetStoredRoomInfo(client.storage, client.clock)
         h == NewHandle(client.timeouts)
     IN client' = [client EXCEPT
                     !.connected = TRUE,
                     !.connects = @ + 1,
                     !.storage = got.storage,
                     !.dropped = client.storage.present /\ ~got.storage.present,
                     !.timeouts = IF got.info.present
                                  THEN @ \cup {[n |-> h, info |-> got.info,
                                                due |-> client.clock + RejoinDelay]}
                                  ELSE @,
                     !.ref = IF got.info.present THEN h ELSE @]
  /\ UNCHANGED server

\* disconnect: clearTimeout(reconnectTimeoutRef.current), which stays in
\* the ref, and the socket manager disconnects; a closed socket gets no
\* answers any more
ClientDisconnect ==
  /\ client' = [client EXCEPT !.connected = FALSE,
                              !.timeouts = { t \in @ : t.n # client.ref },
                              !.awaiting = EmptyBag]
  /\ UNCHANGED server

\* the cleanup of the hook's last effect:
\* clearTimeout(reconnectTimeoutRef.current)
ClientCleanup ==
  /\ client' = [client EXCEPT !.timeouts = { t \in @ : t.n # client.ref }]
  /\ UNCHANGED server

\* rejoinRoom(storedInfo), run by the timeout t: room:join with the record
\* the timeout was armed with, unless the manager is not connected
ClientRejoin(t) ==
  /\ t \in client.timeouts
  /\ client.clock >= t.due
  /\ client' = IF client.connected
               THEN [client EXCEPT !.timeouts = @ \ {t},
                                   !.emitted = t.info,
                                   !.emits = @ + 1,
                                   !.awaiting = @ (+) SetToBag({t.info})]
               ELSE [client EXCEPT !.timeouts = @ \ {t}]
  /\ UNCHANGED server

\* rejoinRoom: the answer to one of its room:join events arrives; a
\* refused join clears whatever record localStorage holds by then
ClientRejoinReply(info, ok) ==
  /\ BagIn(info, client.awaiting)
  /\ client' = [client EXCEPT !.awaiting = @ (-) SetToBag({info}),
                              !.storage = IF ok THEN @ ELSE NoRecord]
  /\ UNCHANGED server

\* the browser's Date.now() moves on
ClientTick(d) ==
  /\ client.ticks < StoreTicks
  /\ client' = [client EXCEPT !.clock = @ + d, !.ticks = @ + 1]
  /\ UNCHANGED server

NextStore ==
  \/ ClientStoreRoomInfo
  \/ ClientLeaveRoom
  \/ ClientRoomDeleted
  \/ ClientConnect
  \/ ClientDisconnect
  \/ ClientCleanup
  \/ \E t \in client.timeouts : ClientRejoin(t)
  \/ \E info \in BagToSet(client.awaiting), ok \in BOOLEAN : ClientRejoinReply(info, ok)
  \/ \E d \in {1, RejoinDelay, StoreTtl} : ClientTick(d)

SpecStore == InitStore /\ [][NextStore]_vars

\* --------------------------------------------------------------------- C24
\* C24: on connect the browser schedules the auto-rejoin with the stored
\* record only if Date.now() - record.timestamp is at most 24 hours; an
\* older record is removed from localStorage and no room:join is sent
\* for it.
FreshRecordOnly ==
  /\ [][ ( client'.connects # client.connects /\ client.storage.present )
         => IF client.clock - client.storage.timestamp <= StoreTtl
            THEN /\ \E t \in client'.timeouts \ client.timeouts :
                      /\ t.info = client.storage
                      /\ client'.ref = t.n
                 /\ client'.storage = client.storage
            ELSE /\ client'.storage = NoRecord
                 /\ client'.timeouts = client.timeouts ]_vars
  /\ [][ client'.emits # client.emits
         => \E t \in client.timeouts \ client'.timeouts :
              /\ client'.emitted = t.info
              /\ (t.due - RejoinDelay) - t.info.timestamp <= StoreTtl ]_vars

\* the browser has connected with a record older than 24 hours: the record
\* is gone and no rejoin is pending or was sent
FreshRecordOnlyWitness ==
  /\ client.dropped
  /\ client.connected
  /\ ~client.storage.present
  /\ client.timeouts = {}
  /\ client.emits = 0
  /\ client.clock > StoreTtl

\* --------------------------------------------------------------------- C25
\* C25: the disconnect of a room's owner does not delete the room in that
\* step; the room is deleted by the sweep that runs once its
\* lastOwnerHeartbeat is more than five minutes old.
OwnerDisconnectKeepsRoom ==
  /\ [][ \A c \in Connected :
           ( /\ closed' = closed \cup {c}
             /\ IsCurrentOwner(c)
             /\ srv.socketToRoom[c].isOwner )
           => srv.socketToRoom[c].roomId \in DOMAIN srv'.rooms ]_vars
  /\ [][ lastSweep' # lastSweep
         => \A r \in DOMAIN srv.rooms :
              now - srv.rooms[r].lastOwnerHeartbeat > OwnerTimeout
              => r \notin DOMAIN srv'.rooms ]_vars

\* ================================================== the browser: usePlaySync
Abs(x) == IF x < 0 THEN -x ELSE x

\* mutant: a difference of exactly the tolerance is adopted too
NeedsSeekAtLeast(local, received) == Abs(local - received) >= SyncTolerance * PerSecond

\* timeDiff > 2
NeedsSeek(local, received) == Abs(local - received) > SyncTolerance * PerSecond

\* the positions a play:update or play:seek carries and the user seeks to:
\* the start, and 2 s and 2.1 s into the video
Positions == {0, SyncTolerance * PerSecond, SyncTolerance * PerSecond + 1}

\* videoId / videoUrl of the page: the empty string or a video
Videos == {EmptyString, 1}

\* how far the browser's clock moves at a time
Ticks == {SyncResetDelay}

\* nothing was sent to the room by the handler that runs now, so far
NothingSent == [evs |-> <<>>, echo |-> FALSE]
Quiet(b) == [b EXCEPT !.sent = NothingSent]

\* the hook in a room, on a page without a video or a player yet.
\* isOwner: the isOwner of useWatchRoom; timers: the pending setTimeout
\* calls in the order they were made, "reset" for the one that resets
\* syncingRef and "change" for the one of the owner's change effect, each
\* with its delay and the time left (rem); since: Date.now() -
\* lastSyncTimeRef.current, up to BroadcastGap; events: the media events
\* the player has raised and not delivered yet; render: the provider has
\* a new currentRoom to render; navigated: router.push has started a
\* navigation; n, acts: how many events from the room and how many local
\* actions were handled; last: the last event from the room; sent: the
\* events the last step sent to the room
NewPlaySync(isOwner) ==
  [ player |-> [ready |-> FALSE, paused |-> TRUE, currentTime |-> 0],
    isOwner |-> isOwner, videoId |-> EmptyString, videoUrl |-> EmptyString,
    syncing |-> FALSE, timers |-> <<>>, since |-> BroadcastGap,
    events |-> EmptyBag, render |-> FALSE, navigated |-> FALSE,
    n |-> 0, acts |-> 0,
    last |-> [ev |-> "none", currentTime |-> 0],
    sent |-> NothingSent ]

\* what a handler records of the event it was called with
Handled(b, ev, state) ==
  [b EXCEPT !.n = @ + 1,
            !.last = [ev |-> ev, currentTime |-> state.currentTime]]

\* ------------------------------------------------------------ the player
\* the media element raises ev; the listener runs later, in a task of its
\* own.  remote: the hook did this while it applied an event from the room
Raise(b, ev, remote) ==
  [b EXCEPT !.events = @ (+) SetToBag({[ev |-> ev, remote |-> remote]})]

\* player.play(); played: the playback starts (the promise is not
\* rejected).  A player that is playing stays as it is
PlayerPlay(b, played, remote) ==
  IF b.player.paused /\ played
  THEN Raise([b EXCEPT !.player.paused = FALSE], "play", remote)
  ELSE b

\* player.pause()
PlayerPause(b, remote) ==
  IF ~b.player.paused
  THEN Raise([b EXCEPT !.player.paused = TRUE], "pause", remote)
  ELSE b

\* player.currentTime = currentTime: a seek, also to the position the
\* player is at
PlayerSeek(b, currentTime, remote) ==
  Raise([b EXCEPT !.player.currentTime = currentTime], "seeked", remote)

\* --------------------------------------------------------------- timers
\* setTimeout(callback, delay)
SetTimeout(b, kind, delay, remote) ==
  [b EXCEPT !.timers = Append(@, [kind |-> kind, delay |-> delay, rem |-> delay,
                                  remote |-> remote])]

\* clearTimeout(timer) of the owner's change effect
ClearChangeTimer(b) ==
  [b EXCEPT !.timers = SelectSeq(@, LAMBDA t : t.kind # "change")]

\* the timeout at place i may run now: its delay is over, and so is every
\* timeout that was set before it with a delay not longer than its own
\* (the order the timers of one page keep)
Due(b, i) ==
  /\ b.timers[i].rem = 0
  /\ \A j \in 1 .. i - 1 : b.timers[j].delay > b.timers[i].delay

\* the timeouts without the one at place i
Without(timers, i) ==
  [j \in 1 .. Len(timers) - 1 |-> IF j < i THEN timers[j] ELSE timers[j + 1]]

\* ------------------------------------------------- the receiving handlers
\* handlePlayUpdate(state)
HandlePlayUpdate(b, state, played) ==
  IF ~b.player.ready \/ b.syncing THEN b
  ELSE LET b1 == [b EXCEPT !.syncing = TRUE]
           b2 == IF state.isPlaying /\ b1.player.paused THEN PlayerPlay(b1, played, TRUE)
                 ELSE IF ~state.isPlaying /\ ~b1.player.paused THEN PlayerPause(b1, TRUE)
                 ELSE b1
           b3 == IF NeedsSeek(b2.player.currentTime, state.currentTime)
                 THEN PlayerSeek(b2, state.currentTime, TRUE)
                 ELSE b2
       IN SetTimeout(b3, "reset", SyncResetDelay, FALSE)

\* handlePlayCommand, handlePauseCommand, handleSeekCommand(currentTime)
HandleCommand(b, ev, currentTime, played) ==
  IF ~b.player.ready \/ b.syncing THEN b
  ELSE LET b1 == [b EXCEPT !.syncing = TRUE]
           b2 == IF ev = "play:play" THEN PlayerPlay(b1, played, TRUE)
                 ELSE IF ev = "play:pause" THEN PlayerPause(b1, TRUE)
                 ELSE PlayerSeek(b1, currentTime, TRUE)
       IN SetTimeout(b2, "reset", SyncResetDelay, FALSE)

\* handleChangeCommand(state); moved: router.push(url) leads to another
\* video, which the page loads later
HandleChangeCommand(b, moved) ==
  IF b.syncing THEN b
  ELSE SetTimeout([b EXCEPT !.syncing = TRUE, !.navigated = @ \/ moved],
                  "reset", ChangeResetDelay, FALSE)

\* useWatchRoom, socket.on('play:update' / 'play:change'): setCurrentRoom;
\* the provider renders again with a new context value, later
SetCurrentRoom(b) == [b EXCEPT !.render = TRUE]

\* --------------------------------------------------------- the senders
\* sock.emit(ev, ...); remote: the send goes back to an event received
\* from the room
Send(b, ev, remote) ==
  [b EXCEPT !.sent = [evs |-> Append(@.evs, ev), echo |-> @.echo \/ remote]]

\* watchRoom.play() / pause() / seekPlayback(): the event sent to the room
SentFor(e) ==
  IF e = "play" THEN "play:play" ELSE IF e = "pause" THEN "play:pause" ELSE "play:seek"

\* useWatchRoom, updatePlayState(state): play:update, from the owner only
UpdatePlayState(b, remote) ==
  IF ~b.isOwner THEN b ELSE Send(b, "play:update", remote)

\* useWatchRoom, changeVideo(state): play:change, from the owner only
ChangeVideo(b, remote) ==
  IF ~b.isOwner THEN b ELSE Send(b, "play:change", remote)

\* broadcastPlayState(): nothing while syncing or without a player, and
\* nothing within 1000 ms of the last call that got this far
BroadcastPlayState(b, remote) ==
  IF b.syncing \/ ~b.player.ready THEN b
  ELSE IF b.since < BroadcastGap THEN b
  ELSE UpdatePlayState([b EXCEPT !.since = 0], remote)

\* handlePlay / handlePause / handleSeeked for the media event e
HandlePlayerEvent(b, e) ==
  LET b0 == [b EXCEPT !.events = @ (-) SetToBag({e})]
  IN IF b0.syncing THEN b0
     ELSE IF e.ev = "seeked" THEN Send(b0, SentFor(e.ev), e.remote)
     ELSE BroadcastPlayState(Send(b0, SentFor(e.ev), e.remote), e.remote)

\* the owner's change effect runs again for the page's videoId and
\* videoUrl: the cleanup of the previous run clears its timeout, and a new
\* one is set if this is the owner and the page has a video
ChangeEffect(b, videoId, videoUrl, remote) ==
  LET b0 == [ClearChangeTimer(b) EXCEPT !.videoId = videoId, !.videoUrl = videoUrl]
  IN IF ~b0.isOwner THEN b0
     ELSE IF videoId = EmptyString \/ videoUrl = EmptyString THEN b0
     ELSE SetTimeout(b0, "change", ChangeDelay, remote)

InitSync ==
  /\ Start
  /\ variant = "js"
  /\ twin = NoTwin
  /\ cap = [conns |-> RelayConns, least |-> RelayLeast, creates |-> RelayCreates,
            rooms |-> RelayRooms, tokens |-> RelayTokens, pwds |-> 0,
            advances |-> 0, history |-> FALSE, private |-> FALSE]
  /\ \E isOwner \in BOOLEAN : client = NewPlaySync(isOwner)

\* artPlayerRef.current is set
PlayerReady ==
  /\ ~client.player.ready
  /\ client' = [Quiet(client) EXCEPT !.player.ready = TRUE]
  /\ UNCHANGED server

\* the video plays on
PlayerAdvance ==
  /\ client.acts < MaxActs
  /\ client.player.ready
  /\ ~client.player.paused
  /\ \E currentTime \in Positions :
       /\ currentTime > client.player.currentTime
       /\ client' = [Quiet(client) EXCEPT !.acts = @ + 1,
                                          !.player.currentTime = currentTime]
  /\ UNCHANGED server

\* socket.on('play:update', ...) of both hooks
OnPlayUpdate ==
  /\ client.n < MaxEvents
  /\ \E currentTime \in Positions, isPlaying \in BOOLEAN, played \in BOOLEAN :
       LET state == [currentTime |-> currentTime, isPlaying |-> isPlaying]
       IN client' = SetCurrentRoom(
                      Handled(HandlePlayUpdate(Quiet(client), state, played),
                              "play:update", state))
  /\ UNCHANGED server

\* socket.on('play:play' / 'play:pause' / 'play:seek', ...)
OnCommand ==
  /\ client.n < MaxEvents
  /\ \E ev \in {"play:play", "play:pause", "play:seek"}, played \in BOOLEAN,
        currentTime \in Positions :
       LET at == IF ev = "play:seek" THEN currentTime ELSE 0
       IN client' = Handled(HandleCommand(Quiet(client), ev, at, played), ev,
                            [currentTime |-> at, isPlaying |-> FALSE])
  /\ UNCHANGED server

\* socket.on('play:change', ...) of both hooks
OnPlayChange ==
  /\ client.n < MaxEvents
  /\ \E moved \in BOOLEAN :
       client' = SetCurrentRoom(
                   Handled(HandleChangeCommand(Quiet(client), moved), "play:change",
                           [currentTime |-> 0, isPlaying |-> FALSE]))
  /\ UNCHANGED server

\* the user presses play or pause or drags the progress bar
UserAction ==
  /\ client.acts < MaxActs
  /\ client.player.ready
  /\ LET b == [Quiet(client) EXCEPT !.acts = @ + 1]
     IN \/ client' = PlayerPlay(b, TRUE, FALSE)
        \/ client' = PlayerPause(b, FALSE)
        \/ \E currentTime \in Positions : client' = PlayerSeek(b, currentTime, FALSE)
  /\ UNCHANGED server

\* player.on('play' / 'pause' / 'seeked', ...): a media event is delivered
PlayerEventFires(e) ==
  /\ BagIn(e, client.events)
  /\ client' = HandlePlayerEvent(Quiet(client), e)
  /\ UNCHANGED server

\* the provider has rendered after a received play:update or play:change:
\* the context value is a new object, the owner's change effect runs again
ProviderRenders ==
  /\ client.render
  /\ client' = ChangeEffect([Quiet(client) EXCEPT !.render = FALSE],
                            client.videoId, client.videoUrl, TRUE)
  /\ UNCHANGED server

\* the page has loaded what router.push navigated to
PageLoads ==
  /\ client.navigated
  /\ \E videoId \in Videos, videoUrl \in Videos :
       client' = ChangeEffect([Quiet(client) EXCEPT !.navigated = FALSE],
                              videoId, videoUrl, TRUE)
  /\ UNCHANGED server

\* the user opens a video or switches the episode or the source, the page
\* gets the video's address, or the provider renders for a reason of its
\* own: the owner's change effect runs again
DepsChange ==
  /\ client.acts < MaxActs
  /\ \E videoId \in Videos, videoUrl \in Videos :
       client' = ChangeEffect([Quiet(client) EXCEPT !.acts = @ + 1],
                              videoId, videoUrl, FALSE)
  /\ UNCHANGED server

\* the timeout of the owner's change effect: changeVideo unless syncing
ChangeTimerFires(i) ==
  /\ i \in 1 .. Len(client.timers)
  /\ client.timers[i].kind = "change"
  /\ Due(client, i)
  /\ LET b == [Quiet(client) EXCEPT !.timers = Without(@, i)]
     IN client' = IF b.syncing THEN b ELSE ChangeVideo(b, client.timers[i].remote)
  /\ UNCHANGED server

\* setTimeout(() => { syncingRef.current = false }, 500) (1000 after a
\* play:change)
SyncingDone(i) ==
  /\ i \in 1 .. Len(client.timers)
  /\ client.timers[i].kind = "reset"
  /\ Due(client, i)
  /\ client' = [Quiet(client) EXCEPT !.syncing = FALSE, !.timers = Without(@, i)]
  /\ UNCHANGED server

\* the 5 s syncInterval: broadcastPlayState unless syncing or paused
PeriodicSync ==
  /\ client.acts < MaxActs
  /\ client.player.ready
  /\ LET b == [Quiet(client) EXCEPT !.acts = @ + 1]
     IN client' = IF b.syncing \/ b.player.paused THEN b
                  ELSE BroadcastPlayState(b, FALSE)
  /\ UNCHANGED server

\* broadcastPlayState() called through the hook's return value
ManualBroadcast ==
  /\ client.acts < MaxActs
  /\ client' = BroadcastPlayState([Quiet(client) EXCEPT !.acts = @ + 1], FALSE)
  /\ UNCHANGED server

\* the browser's clock moves on by d ms; a timeout whose delay is over
\* waits until its callback is run
BrowserTick(d) ==
  /\ client' = [Quiet(client) EXCEPT
                  !.timers = [i \in 1 .. Len(@) |->
                                [@[i] EXCEPT !.rem = IF @ > d THEN @ - d ELSE 0]],
                  !.since = IF @ + d > BroadcastGap THEN BroadcastGap ELSE @ + d]
  /\ UNCHANGED server

NextSync ==
  \/ PlayerReady
  \/ PlayerAdvance
  \/ OnPlayUpdate
  \/ OnCommand
  \/ OnPlayChange
  \/ UserAction
  \/ \E e \in BagToSet(client.events) : PlayerEventFires(e)
  \/ ProviderRenders
  \/ PageLoads
  \/ DepsChange
  \/ \E i \in 1 .. Len(client.timers) : ChangeTimerFires(i)
  \/ \E i \in 1 .. Len(client.timers) : SyncingDone(i)
  \/ PeriodicSync
  \/ ManualBroadcast
  \/ \E d \in Ticks : BrowserTick(d)

\* the browser's clock moves on and the timeouts that are due run
SpecSync ==
  /\ InitSync
  /\ [][NextSync]_vars
  /\ WF_vars(\E d \in Ticks : BrowserTick(d))
  /\ WF_vars(\E i \in 1 .. Len(client.timers) : SyncingDone(i))
  /\ WF_vars(\E i \in 1 .. Len(client.timers) : ChangeTimerFires(i))

\* --------------------------------------------------------------------- C26
\* C26: a play:update moves the local player to the received currentTime
\* only when the two positions are more than 2 seconds apart (and then the
\* handler, when it runs, does move it); when they are 2 seconds or less
\* apart the local position stays as it was.
SeekBeyondTolerance ==
  [][ ( client'.n = client.n + 1 /\ client'.last.ev = "play:update" )
      => LET local == client.player.currentTime
             received == client'.last.currentTime
         IN IF Abs(local - received) > SyncTolerance * PerSecond
            THEN /\ client'.player.currentTime \in {local, received}
                 /\ ( client.player.ready /\ ~client.syncing )
                    => client'.player.currentTime = received
            ELSE client'.player.currentTime = local ]_vars

\* a play:update exactly 2 seconds away from the local position was handled
\* by a ready, idle player and the position stayed
SeekBeyondToleranceWitness ==
  /\ client.last.ev = "play:update"
  /\ client.player.ready
  /\ client.syncing
  /\ client.n = 1
  /\ client.player.currentTime = 0
  /\ client.last.currentTime = SyncTolerance * PerSecond

\* --------------------------------------------------------------------- C27
\* C27: a heartbeat from a bound connection that is not the owner of its
\* room refreshes that member's lastHeartbeat and nothing else, in
\* particular not room.lastOwnerHeartbeat; a heartbeat from the room's owner
\* refreshes room.lastOwnerHeartbeat as well; and the sweep only deletes
\* rooms whose lastOwnerHeartbeat is older than the timeout, so a room whose
\* owner sent a heartbeat within the timeout survives the sweep.
HeartbeatRefreshes ==
  /\ [][ \A c \in Connected :
           ( /\ srv' = Heartbeat(Begin, c, now)
             /\ c \in DOMAIN srv.socketToRoom
             /\ srv.socketToRoom[c].roomId \in DOMAIN srv.rooms
             /\ c \in DOMAIN srv.members[srv.socketToRoom[c].roomId] )
           => LET r == srv.socketToRoom[c].roomId
              IN /\ srv'.members = [srv.members EXCEPT ![r][c].lastHeartbeat = now]
                 /\ srv'.rooms[r].lastOwnerHeartbeat =
                      IF srv.rooms[r].ownerId = c THEN now
                      ELSE srv.rooms[r].lastOwnerHeartbeat
                 /\ srv'.rooms = [srv.rooms EXCEPT ![r].lastOwnerHeartbeat =
                                    srv'.rooms[r].lastOwnerHeartbeat]
                 /\ srv'.socketToRoom = srv.socketToRoom
                 /\ srv'.timers = srv.timers
                 /\ srv'.roomDeletionTimers = srv.roomDeletionTimers
                 /\ srv'.out = <<>> ]_vars
  /\ [][ lastSweep' # lastSweep
         => \A r \in DOMAIN srv.rooms \ DOMAIN srv'.rooms :
              now - srv.rooms[r].lastOwnerHeartbeat > OwnerTimeout ]_vars

\* --------------------------------------------------------------------- C28
\* C28: for a connection without a socketToRoom entry, room:leave, the
\* disconnect handler, play:update, play:seek, play:play, play:pause,
\* play:change, live:change, chat:message, voice:offer, voice:answer,
\* voice:ice and heartbeat change no room, member map, index entry or timer
\* and emit nothing to anybody.
UnboundIsIgnored ==
  \A c \in Connected :
    c \notin DOMAIN srv.socketToRoom
    => /\ HandleLeaveRoom(variant, Begin, c, now) = Begin
       /\ LET gone == [Begin EXCEPT !.sio = MapDel(@, c)]
          IN HandleLeaveRoom(variant, gone, c, now) = gone
       /\ \A st \in PlayStates : /\ PlayUpdate(variant, Begin, c, st) = Begin
                                 /\ OwnerChange(Begin, c, "play:change", st) = Begin
       /\ \A st \in LiveStates : OwnerChange(Begin, c, "live:change", st) = Begin
       /\ \A ev \in {"play:seek", "play:play", "play:pause"} :
            PlayRelay(Begin, c, ev, 0) = Begin
       /\ \A type \in {"text", "emoji"} :
            ChatMessage(Begin, c, [content |-> 1, type |-> type], 1, now) = Begin
       /\ \A ev \in {"voice:offer", "voice:answer", "voice:ice"} :
            \A target \in Conns \cup RoomIds :
              VoiceRelay(Begin, c, ev, [targetUserId |-> target, payload |-> 1]) = Begin
       /\ Heartbeat(Begin, c, now) = Begin

\* a connection without an entry next to a room with a bound member and a
\* stale owner heartbeat, which any state change would show
UnboundIsIgnoredWitness ==
  \E c \in Connected, d \in Connected :
    /\ c \notin DOMAIN srv.socketToRoom
    /\ d \in DOMAIN srv.socketToRoom
    /\ srv.socketToRoom[d].roomId \in DOMAIN srv.rooms
    /\ d \in DOMAIN srv.members[srv.socketToRoom[d].roomId]
    /\ now > srv.rooms[srv.socketToRoom[d].roomId].lastOwnerHeartbeat
    /\ srv.out = <<>>

\* --------------------------------------------------------------------- C29
\* C29: a voice:offer, voice:answer or voice:ice from a bound connection is
\* sent to the connection named by targetUserId and to nobody else, and
\* the userId it carries, like the userId of a relayed chat:message, is
\* the sender's own id as kept in its socketToRoom entry.
SignalReachesTargetOnly ==
  [][ \A c \in Connected :
        c \in DOMAIN srv.socketToRoom
        => /\ \A ev \in {"voice:offer", "voice:answer", "voice:ice"},
                 target \in Conns \cup RoomIds, payload \in 1 .. MaxPayload :
                srv' = VoiceRelay(Begin, c, ev, [targetUserId |-> target, payload |-> payload])
                => /\ Len(srv'.out) <= 1
                   /\ \A i \in 1 .. Len(srv'.out) :
                        /\ srv'.out[i].to = target
                        /\ srv'.out[i].data.userId = srv.socketToRoom[c].userId
           /\ \A type \in {"text", "emoji"}, content \in 1 .. MaxPayload, rnd \in 1 .. MaxPayload :
                srv' = ChatMessage(Begin, c, [content |-> content, type |-> type], rnd, now)
                => \A i \in 1 .. Len(srv'.out) :
                     srv'.out[i].data.userId = srv.socketToRoom[c].userId ]_vars

\* --------------------------------------------------------------------- C30
\* C30: a play:seek, play:play or play:pause from a bound connection, owner
\* or not, is sent once to every other member of the sender's room and not
\* to the sender, and changes no room (currentState included), member map,
\* index entry or timer.
PlayCommandsRelayed ==
  [][ \A c \in Conns : \A ev \in {"play:seek", "play:play", "play:pause"} :
        \A arg \in 0 .. MaxPayload :
          ( /\ c \in Connected
            /\ c \in DOMAIN srv.socketToRoom
            /\ srv' = PlayRelay(Begin, c, ev, arg) )
          => LET r == srv.socketToRoom[c].roomId
                 roomMembers == IF r \in DOMAIN srv.members
                                THEN DOMAIN srv.members[r] ELSE {}
             IN /\ \A u \in roomMembers \ {c} : Received(srv', u, ev, arg) = 1
                /\ ReceivedAny(srv', c, ev) = 0
                /\ srv'.rooms = srv.rooms
                /\ srv'.members = srv.members
                /\ srv'.socketToRoom = srv.socketToRoom
                /\ srv'.timers = srv.timers
                /\ srv'.roomDeletionTimers = srv.roomDeletionTimers ]_vars

\* --------------------------------------------------------------------- C31
\* the server takes a state-updating event ev of connection c: c is bound
\* to a registered room and passes the handler's owner test
Accepted(c, ev) ==
  /\ c \in DOMAIN srv.socketToRoom
  /\ srv.socketToRoom[c].roomId \in DOMAIN srv.rooms
  /\ (ev = "play:update" /\ variant = "js") \/ srv.socketToRoom[c].isOwner

\* what the handler of event ev does with payload st
StateEvent(c, ev, st) ==
  IF ev = "play:update" THEN PlayUpdate(variant, Begin, c, st)
  ELSE OwnerChange(Begin, c, ev, st)

StateEvents == {"play:update", "play:change", "live:change"}

\* C31: a room's currentState is null when the room is created, changes
\* only by an accepted play:update, play:change or live:change of a
\* connection bound to it, is the payload of that event afterwards, and is
\* the value the room snapshot of a join reply carries.
CurrentStateIsLastWrite ==
  /\ [][ \A r \in DOMAIN srv'.rooms :
           IF r \notin DOMAIN srv.rooms
           THEN srv'.rooms[r].currentState = Null
           ELSE srv'.rooms[r].currentState # srv.rooms[r].currentState
                => \E c \in Connected, ev \in StateEvents, st \in PlayStates \cup LiveStates :
                     /\ Accepted(c, ev)
                     /\ srv.socketToRoom[c].roomId = r
                     /\ srv' = StateEvent(c, ev, st)
                     /\ srv'.rooms[r].currentState = st ]_vars
  /\ [][ \A c \in Connected, ev \in StateEvents, st \in PlayStates \cup LiveStates :
           ( Accepted(c, ev) /\ srv' = StateEvent(c, ev, st) )
           => srv'.rooms[srv.socketToRoom[c].roomId].currentState = st ]_vars
  /\ [][ \A m \in OutNext :
           ( m.ev = "room:join" /\ m.data.success )
           => /\ m.data.room.id \in DOMAIN srv.rooms
              /\ m.data.room.currentState = srv.rooms[m.data.room.id].currentState ]_vars

\* --------------------------------------------------------------------- C32
\* C32: in server.js the callback of a deletion timer deletes the timer's
\* room exactly when the room's member map is empty at that moment; a room
\* with a member is left alone and nothing is emitted; when the callback
\* deletes, room:deleted without a reason goes to the room and neither the
\* timer nor a roomDeletionTimers entry for the room is left.
TimerDeletesEmptyRoomOnly ==
  [][ \A h \in srv.timers :
        ( now >= h.due /\ srv' = DeletionTimerCallback(Begin, h) )
        => LET r == h.roomId
           IN /\ DOMAIN srv.rooms \ DOMAIN srv'.rooms \subseteq {r}
              /\ h \notin srv'.timers
              /\ IF r \in DOMAIN srv.members /\ DOMAIN srv.members[r] = {}
                 THEN /\ r \notin DOMAIN srv'.rooms
                      /\ r \notin DOMAIN srv'.members
                      /\ r \notin DOMAIN srv'.roomDeletionTimers
                      /\ \A u \in InRoom(srv, r) :
                           Received(srv', u, "room:deleted", NoReason) = 1
                 ELSE /\ srv'.rooms = srv.rooms
                      /\ srv'.members = srv.members
                      /\ srv'.out = <<>> ]_vars

\* a timer armed for an earlier room of the same id has fired on a room
\* with a member and left it registered
TimerDeletesEmptyRoomOnlyWitness ==
  /\ variant = "js"
  /\ expired = {}
  /\ srv.timers = {}
  /\ now >= GraceDelay
  /\ \E r \in DOMAIN srv.roomDeletionTimers :
       /\ r \in DOMAIN srv.rooms
       /\ DOMAIN srv.members[r] # {}
       /\ now >= srv.roomDeletionTimers[r].due

\* --------------------------------------------------------------------- C33
\* C33: fed the same events, the WatchRoomServer of server.js and the one
\* of watch-room-server.ts hold the same rooms, member maps and
\* socketToRoom entries and have emitted the same events to the same
\* connections.
VariantsAgree ==
  /\ srv.rooms = twin.rooms
  /\ srv.members = twin.members
  /\ srv.socketToRoom = twin.socketToRoom
  /\ srv.out = twin.out

\* --------------------------------------------------------------------- C34
\* C34: destroy() of server.js leaves no pending deletion timer and an
\* empty roomDeletionTimers, and from then on neither the sweep runs nor
\* does a deletion-timer callback delete a room.
DestroyStopsTimers ==
  /\ [][ ( variant = "js" /\ srv' = Destroy(variant, Begin) )
         => /\ srv'.timers = {}
            /\ srv'.roomDeletionTimers = EmptyMap ]_vars
  /\ [][ ( variant = "js" /\ ~srv.cleanupInterval )
         => /\ ~srv'.cleanupInterval
            /\ lastSweep' = lastSweep
            /\ expired' = expired ]_vars

\* --------------------------------------------------------------------- C35
\* C35: in every reachable state a connection id is a key of at most one
\* room's member map.
MemberOfOneRoom ==
  \A c \in Conns :
    Cardinality({ r \in DOMAIN srv.members : c \in DOMAIN srv.members[r] }) <= 1

\* --------------------------------------------------------------------- C36
\* C36: when server.js disbands a room because its owner leaves or
\* disconnects, every connection bound to another room keeps its
\* socketToRoom entry, and the other rooms and their member maps stay as
\* they are.
DisbandSparesOtherRooms ==
  [][ \A c \in Conns :
        ( /\ variant = "js"
          /\ LeavesOccupiedRoom(c)
          /\ srv.socketToRoom[c].isOwner )
        => LET r == srv.socketToRoom[c].roomId
           IN /\ \A u \in DOMAIN srv.socketToRoom :
                   srv.socketToRoom[u].roomId # r
                   => /\ u \in DOMAIN srv'.socketToRoom
                      /\ srv'.socketToRoom[u] = srv.socketToRoom[u]
              /\ \A q \in DOMAIN srv.rooms \ {r} :
                   /\ q \in DOMAIN srv'.rooms
                   /\ srv'.rooms[q] = srv.rooms[q]
                   /\ srv'.members[q] = srv.members[q] ]_vars

\* --------------------------------------------------------------------- C37
\* the connections the handler that led to server state s sent event ev to
RelayedTo(s, ev) == { s.out[i].to : i \in { j \in 1 .. Len(s.out) : s.out[j].ev = ev } }

\* connection u is a member of the registered room r and bound to it
BoundMember(u, r) ==
  /\ r \in DOMAIN srv.rooms
  /\ r \in DOMAIN srv.members
  /\ u \in DOMAIN srv.members[r]
  /\ u \in DOMAIN srv.socketToRoom
  /\ srv.socketToRoom[u].roomId = r

\* C37: chat:message, play:update, play:seek, play:play, play:pause,
\* play:change, live:change, room:member-joined and room:member-left reach
\* only connections that are members of the sender's room and bound to it
\* when the event is handled; a connection bound to another room since, or
\* whose room is deleted, gets none of them.
RelayStaysInRoom ==
  [][ \A c \in Connected :
        /\ \A data \in JoinData :
             srv' = JoinRoom(variant, Begin, c, data, now)
             => \A u \in RelayedTo(srv', "room:member-joined") : BoundMember(u, data.roomId)
        /\ c \in DOMAIN srv.socketToRoom
           => LET r == srv.socketToRoom[c].roomId
              IN /\ ( \/ srv' = HandleLeaveRoom(variant, Begin, c, now)
                      \/ srv' = HandleLeaveRoom(variant, [Begin EXCEPT !.sio = MapDel(@, c)], c, now) )
                    => \A u \in RelayedTo(srv', "room:member-left") : BoundMember(u, r)
                 /\ \A type \in {"text", "emoji"}, content \in 1 .. MaxPayload,
                       rnd \in 1 .. MaxPayload :
                      srv' = ChatMessage(Begin, c, [content |-> content, type |-> type], rnd, now)
                      => \A u \in RelayedTo(srv', "chat:message") : BoundMember(u, r)
                 /\ \A ev \in {"play:seek", "play:play", "play:pause"}, arg \in 0 .. MaxPayload :
                      srv' = PlayRelay(Begin, c, ev, arg)
                      => \A u \in RelayedTo(srv', ev) : BoundMember(u, r)
                 /\ \A ev \in StateEvents, st \in PlayStates \cup LiveStates :
                      srv' = StateEvent(c, ev, st)
                      => \A u \in RelayedTo(srv', ev) : BoundMember(u, r) ]_vars

\* --------------------------------------------------------------------- C38
\* C38: for every registered room r and connection c the three ownership
\* records agree: c's socketToRoom entry names r with isOwner = true iff
\* c's Member in r's map has isOwner = true iff room.ownerId = c.
OwnershipAgrees ==
  \A r \in DOMAIN srv.rooms : \A c \in Conns :
    LET inIndex == /\ c \in DOMAIN srv.socketToRoom
                   /\ srv.socketToRoom[c].roomId = r
                   /\ srv.socketToRoom[c].isOwner
        inMember == /\ r \in DOMAIN srv.members
                    /\ c \in DOMAIN srv.members[r]
                    /\ srv.members[r][c].isOwner
        inRoom == srv.rooms[r].ownerId = c
    IN (inIndex <=> inMember) /\ (inMember <=> inRoom)

\* --------------------------------------------------------------------- C39
\* C39: once another connection has taken over a room with the ownerToken
\* (room.ownerId is that connection), the leave or disconnect of the
\* room's creator, the previous owner, does not delete the room, sends no
\* room:deleted and leaves the socketToRoom entries of the new owner and of
\* the other members as they are.
PreviousOwnerLeavesQuietly ==
  [][ \A c \in Conns : \A r \in DOMAIN issued :
        ( /\ issued[r].creator = c
          /\ c \in Connected
          /\ c \in DOMAIN srv.socketToRoom
          /\ srv.socketToRoom[c].roomId = r
          /\ r \in DOMAIN srv.rooms
          /\ srv.rooms[r].ownerId # c
          /\ <<srv.rooms[r].ownerId, r>> \in presented
          /\ srv.rooms[r].ownerId \in DOMAIN srv.socketToRoom
          /\ \/ srv' = HandleLeaveRoom(variant, Begin, c, now)
             \/ srv' = HandleLeaveRoom(variant, [Begin EXCEPT !.sio = MapDel(@, c)], c, now) )
        => /\ r \in DOMAIN srv'.rooms
           /\ \A u \in Conns : ReceivedAny(srv', u, "room:deleted") = 0
           /\ \A u \in DOMAIN srv.socketToRoom \ {c} :
                /\ u \in DOMAIN srv'.socketToRoom
                /\ srv'.socketToRoom[u] = srv.socketToRoom[u] ]_vars

\* --------------------------------------------------------------------- C40
\* C40: while syncingRef is set the browser sends no play:update,
\* play:play, play:pause, play:seek or play:change; no event it sends is
\* raised by the application of an event it received from the room; and a
\* set flag is always reset.
NoEchoWhileSyncing ==
  /\ [][ client'.sent.evs # <<>> => ~client.syncing ]_vars
  /\ [] ~client.sent.echo
  /\ client.syncing ~> ~client.syncing

====
